---------------------------- MODULE Spec2Model ----------------------------
(***************************************************************************)
(* A model of xcube-eopf: the tile mosaicker (xcube_eopf/utils.py), the    *)
(* Sentinel-3 acquisition deduplicator (prodhandlers/sentinel3.py) and the *)
(* Sentinel-2 open_data pipeline (prodhandlers/sentinel2.py).              *)
(*                                                                         *)
(* Five groups of variables, one per component and one for functions      *)
(* called on their own.  Each specification                                *)
(* drives one group and leaves the others at their idle value:             *)
(*   SpecMosaic  mosaic_spatial_take_first on a list of datasets           *)
(*   SpecBaseId  _get_base_id on one item identifier                       *)
(*   SpecSen3    _filter_acquisition_time on a list of Sentinel-3 items    *)
(*   Spec        Sen2ProductHandler.open_data, step by step                *)
(*   SpecGroup   group_items on its own, over footprints at band edges     *)
(*   SpecCube    generate_cube and add_attributes on grouped items         *)
(*   SpecSen3Group  the Sentinel-3 group_items and generate_cube           *)
(*   SpecInsert  _insert_tile_data on its own, tile after tile             *)
(*   SpecPolicy  _get_var_spline_order and _get_var_agg_method             *)
(*   SpecSpatialRes  _get_spatial_res on its own                           *)
(*   SpecIndex   both group_items on their own, over the catalogs          *)
(***************************************************************************)
EXTENDS Integers, Sequences, FiniteSets, TLC

VARIABLES
    list_ds,      \* mosaic: the argument of mosaic_spatial_take_first
    ds_mosaic,    \* mosaic: its outcome (NotCalled before the call)
    item_id,      \* _get_base_id: the argument
    base_id,      \* _get_base_id: its outcome [ret, log] (NotCalled before)
    s3_items,     \* _filter_acquisition_time: the argument
    s3_result,    \* _filter_acquisition_time: its outcome (NotCalled before)
    s3_log,       \* warnings LOG received during _filter_acquisition_time
    s3_grouped_items, \* Sentinel-3 group_items: its outcome (NotCalled before)
    s3_ds_final,  \* Sentinel-3 generate_cube: its outcome (NotCalled before)
    pc,           \* open_data: position in Sen2ProductHandler.open_data
    open_params,  \* open_data: the keyword arguments
    search_params,\* open_data: the dict handed to catalog.search
    items,        \* open_data: the items the catalog returned
    grouped_items,\* open_data: the (time, tile_id) group index
    opened,       \* open_data: ids of the items whose tile was opened, in order
    ds_final,     \* open_data: the returned cube (its attributes)
    raised,       \* open_data: the exception raised, or NoError
    data_id,      \* open_data: the handler's product identifier
    calls,        \* open_data: the collaborator calls made so far, in order
    LOG,          \* open_data: warnings logged so far
    zone_idx,     \* generate_cube: position in the loop over the UTM zones
    loop_idx,     \* _generate_utm_cube: position <<dt_idx, tile>> of its loops
    final_ds,     \* _generate_utm_cube: the zone's canvas, or None
    list_ds_utm,  \* generate_cube: the canvases of the zones done so far
    target_gm,    \* _merge_utm_zones: the target grid mapping
    resampled_list_ds, \* _merge_utm_zones: the zones resampled so far
    canvas_log,   \* history: the canvases built and the insertions made
    fn_args,      \* a function called on its own: its name and arguments
    fn_ret        \* a function called on its own: its outcome so far

mosaicVars == <<list_ds, ds_mosaic>>
baseIdVars == <<item_id, base_id>>
sen3Vars   == <<s3_items, s3_result, s3_log, s3_grouped_items, s3_ds_final>>
cubeVars   == <<zone_idx, loop_idx, final_ds, list_ds_utm, target_gm,
                resampled_list_ds, canvas_log>>
sen2Vars   == <<pc, open_params, search_params, items, grouped_items, opened,
                ds_final, raised, data_id, calls, LOG, cubeVars>>
callVars   == <<fn_args, fn_ret>>
vars       == <<mosaicVars, baseIdVars, sen3Vars, sen2Vars, callVars>>

\* The outcome of a call that has not been made yet.
NotCalled == [called |-> FALSE]

\* No function is called on its own.
IdleCalls == fn_args = [fn |-> "none"] /\ fn_ret = NotCalled

(***************************************************************************)
(* Generic helpers                                                         *)
(***************************************************************************)
\* All sequences over S of length lo..hi.
SeqsOf(S, lo, hi) == UNION {[1..n -> S] : n \in lo..hi}

\* The members of the set of numbers S, ascending, as a sequence.
RECURSIVE Ascending(_)
Ascending(S) ==
    IF S = {} THEN <<>>
    ELSE LET m == CHOOSE x \in S : \A y \in S : x <= y
         IN  <<m>> \o Ascending(S \ {m})

Range(s) == {s[i] : i \in DOMAIN s}

(***************************************************************************)
(* Tile mosaicker: utils.py mosaic_spatial_take_first                      *)
(***************************************************************************)
\* Bound of the mosaicker's input: the number of datasets in one list.
MaxDs == 3

\* np.nan; every other data value is a positive number.
NaN == -1
DataValues == {1, 2}
\* The pixels of one raster, (y, x) flattened.  Every step of the mosaicker
\* is elementwise, so two pixels show a pixel and "elsewhere".
Pixels == {1, 2}

\* A data variable: its dimension names and its values, one per pixel.
\* "b02" is a raster over (time, y, x); "tm" is a variable over time only.
Raster(data) == [dims |-> <<"time", "y", "x">>, data |-> data]
NonSpatial   == [dims |-> <<"time">>, data |-> [p \in Pixels |-> 1]]

\* A dataset: data variables by name, and its attributes.
Dataset(data, k) ==
    [data_vars |-> [key \in {"b02", "tm"} |->
                        IF key = "b02" THEN Raster(data) ELSE NonSpatial],
     attrs |-> k]

Rasters == [Pixels -> DataValues \cup {NaN}]

\* get_spatial_coords(list_ds[0]): the names of the x and y coordinates.
get_spatial_coords(ds) == <<"x", "y">>

\* dims[-2:]
LastTwo(dims) ==
    IF Len(dims) < 2 THEN dims ELSE SubSeq(dims, Len(dims) - 1, Len(dims))

isnan(v) == v = NaN

\* A plausible slip: the last non-NaN dataset wins instead of the first.
argmax_last(mask) ==
    LET val(i) == IF mask[i] THEN 1 ELSE 0
    IN  CHOOSE i \in DOMAIN mask :
            /\ \A j \in DOMAIN mask : val(j) <= val(i)
            /\ \A j \in DOMAIN mask : j > i => val(j) < val(i)

\* mask.argmax(axis=0) for a boolean column: the first index of the maximum,
\* that is the first True, and the first index when every entry is False.
argmax(mask) ==
    LET val(i) == IF mask[i] THEN 1 ELSE 0
    IN  CHOOSE i \in DOMAIN mask :
            /\ \A j \in DOMAIN mask : val(j) <= val(i)
            /\ \A j \in DOMAIN mask : j < i => val(j) < val(i)

\* utils.py 111-129: the variables of the first dataset whose last two
\* dimensions are (y, x), each stacked over the datasets and chosen from by
\* the index of the first non-NaN value; attributes of the first dataset.
stack_and_choose(lds) ==
    LET xy == get_spatial_coords(lds[1])
        first == lds[1].data_vars
        keys == {key \in DOMAIN first :
                    LastTwo(first[key].dims) = <<xy[2], xy[1]>>}
        select(key, p) ==
            LET da_arr == [i \in 1..Len(lds) |-> lds[i].data_vars[key].data[p]]
                nonnan_mask == [i \in 1..Len(lds) |-> ~isnan(da_arr[i])]
                first_non_nan_index == argmax(nonnan_mask)
            IN  da_arr[first_non_nan_index]
    IN  [called |-> TRUE, error |-> "none",
         ds |-> [data_vars |-> [key \in keys |->
                                  [first[key] EXCEPT
                                     !.data = [p \in DOMAIN first[key].data |->
                                                 select(key, p)]]],
                 attrs |-> lds[1].attrs]]

\* A plausible slip: no shortcut, a single dataset is rebuilt like a list.
single_rebuilt(lds) == stack_and_choose(lds)

\* utils.py 108-109: a single dataset is returned as it is.
single(lds) == [called |-> TRUE, error |-> "none", ds |-> lds[1]]

\* utils.py 108-129.  An empty list fails at len(list_ds) == 1 being false
\* and then at list_ds[0].
mosaic_spatial_take_first(lds) ==
    IF Len(lds) = 1 THEN single(lds)
    ELSE IF Len(lds) = 0 THEN [called |-> TRUE, error |-> "IndexError"]
    ELSE stack_and_choose(lds)

\* Every list of 0..MaxDs same-shape datasets; dataset i carries attrs i.
MosaicInputs ==
    UNION {{[i \in 1..n |-> Dataset(rs[i], i)] : rs \in [1..n -> Rasters]} :
           n \in 0..MaxDs}

InitMosaic == list_ds \in MosaicInputs /\ ds_mosaic = NotCalled
IdleMosaic == list_ds = <<>> /\ ds_mosaic = NotCalled

\* One call of mosaic_spatial_take_first(list_ds).
Mosaic ==
    /\ ~ds_mosaic.called
    /\ ds_mosaic' = mosaic_spatial_take_first(list_ds)
    /\ UNCHANGED <<callVars, list_ds, baseIdVars, sen3Vars, sen2Vars>>

(***************************************************************************)
(* Sentinel-3 item identifiers: prodhandlers/sentinel3.py                  *)
(*                                                                         *)
(* An identifier is a sequence of tokens.  "T1".."T4" each stand for one   *)
(* 15-character text YYYYMMDDThhmmss that the pattern \d{8}T\d{6} matches, *)
(* in chronological (and so lexicographic) order; "_" is the underscore;   *)
(* every other token is text the pattern does not match.                   *)
(***************************************************************************)
TsTokens == <<"T1", "T2", "T3", "T4">>
IsTimestamp(tok) == \E k \in DOMAIN TsTokens : TsTokens[k] = tok
\* The rank of a timestamp text in lexicographic string order.
TsRank(tok) == CHOOSE k \in DOMAIN TsTokens : TsTokens[k] = tok

\* re.findall(r"\d{8}T\d{6}", item_id)
_extract_timestamps(id) == SelectSeq(id, IsTimestamp)

\* The warning of _get_base_id, sentinel3.py 246-249.
NoTimestampWarning(id) ==
    [level |-> "WARNING", msg |-> "does not contain 3 timestamp", item_id |-> id]

\* str.rpartition(sep) for a two-token separator: <<head, sep, tail>> around
\* the last occurrence of sep, and <<"", "", s>> when sep does not occur.
rpartition(s, sep) ==
    LET hits == {i \in 1..(Len(s) - 1) : s[i] = sep[1] /\ s[i + 1] = sep[2]}
    IN  IF hits = {} THEN <<<<>>, <<>>, s>>
        ELSE LET i == CHOOSE h \in hits : \A g \in hits : g <= h
             IN  <<SubSeq(s, 1, i - 1), sep, SubSeq(s, i + 2, Len(s))>>

\* A plausible slip: the fallback taken unless there are exactly 3 timestamps.
_get_base_id_exactly3(id) ==
    LET timestamps == _extract_timestamps(id)
    IN  IF Len(timestamps) # 3
        THEN [called |-> TRUE, ret |-> id, log |-> <<NoTimestampWarning(id)>>]
        ELSE [called |-> TRUE,
              ret |-> rpartition(id, <<"_", timestamps[Len(timestamps)]>>)[1],
              log |-> <<>>]

\* sentinel3.py 240-255: the value returned and the warnings logged.
_get_base_id(id) ==
    LET timestamps == _extract_timestamps(id)
    IN  IF Len(timestamps) < 3
        THEN [called |-> TRUE, ret |-> id, log |-> <<NoTimestampWarning(id)>>]
        ELSE [called |-> TRUE,
              ret |-> rpartition(id, <<"_", timestamps[Len(timestamps)]>>)[1],
              log |-> <<>>]

\* Bound of the identifiers _get_base_id is applied to: their length in tokens.
MaxIdLen == 7
IdTokens == {"_", "T1", "T2", "x"}
ItemIds == SeqsOf(IdTokens, 0, MaxIdLen)

InitBaseId == item_id \in ItemIds /\ base_id = NotCalled
IdleBaseId == item_id = <<>> /\ base_id = NotCalled

\* One call of _get_base_id(item_id).
GetBaseId ==
    /\ ~base_id.called
    /\ base_id' = _get_base_id(item_id)
    /\ UNCHANGED <<callVars, item_id, mosaicVars, sen3Vars, sen2Vars>>

(***************************************************************************)
(* Acquisition deduplicator: sentinel3.py _filter_acquisition_time         *)
(***************************************************************************)
\* "_NT_" in id, "_NR_" in id
HasTag(id, tag) ==
    \E i \in 1..(Len(id) - 2) : id[i] = "_" /\ id[i + 1] = tag /\ id[i + 2] = "_"

\* The warnings of the calls _get_base_id(item.id), for item in its[i..].
RECURSIVE BaseIdLogs(_, _)
BaseIdLogs(its, i) ==
    IF i > Len(its) THEN <<>>
    ELSE _get_base_id(its[i].id).log \o BaseIdLogs(its, i + 1)

\* The members of the index sequence idxs whose identifier carries the tag.
TaggedOf(its, idxs, tag) ==
    SelectSeq(idxs, LAMBDA i : HasTag(its[i].id, tag))

\* max(..., key=...) fails when some key cannot be computed: an identifier
\* without any timestamp has no _extract_timestamps(x.id)[-1].
KeyFails(its, idxs) ==
    \E k \in DOMAIN idxs : Len(_extract_timestamps(its[idxs[k]].id)) = 0

\* The key of max: the last timestamp of the identifier, as its rank.
LastTsRank(id) ==
    LET ts == _extract_timestamps(id) IN TsRank(ts[Len(ts)])

\* A plausible slip: min instead of max, the earliest processing timestamp.
earliest(its, idxs) ==
    LET k == CHOOSE a \in DOMAIN idxs :
               /\ \A b \in DOMAIN idxs :
                     LastTsRank(its[idxs[a]].id) <= LastTsRank(its[idxs[b]].id)
               /\ \A b \in DOMAIN idxs :
                     b < a => LastTsRank(its[idxs[a]].id) < LastTsRank(its[idxs[b]].id)
    IN  idxs[k]

\* max(idxs, key=lambda x: _extract_timestamps(x.id)[-1]): the first member
\* with the greatest key (idxs is not empty and no key fails).
latest(its, idxs) ==
    LET k == CHOOSE a \in DOMAIN idxs :
               /\ \A b \in DOMAIN idxs :
                     LastTsRank(its[idxs[b]].id) <= LastTsRank(its[idxs[a]].id)
               /\ \A b \in DOMAIN idxs :
                     b < a => LastTsRank(its[idxs[b]].id) < LastTsRank(its[idxs[a]].id)
    IN  idxs[k]

\* sentinel3.py 215-237.  The outcome names the kept items by their index in
\* the input list (ret_idx) and lists them (ret); error is "IndexError" when
\* the key of max cannot be computed.
_filter_acquisition_time(its) ==
    LET n == Len(its)
        base(i) == _get_base_id(its[i].id).ret
        \* groups = defaultdict(list): keys in order of first appearance
        firsts == Ascending({i \in 1..n : \A j \in 1..(i - 1) : base(j) # base(i)})
        group(i) == Ascending({j \in 1..n : base(j) = base(i)})
        nt_items(i) == TaggedOf(its, group(i), "NT")
        nr_items(i) == TaggedOf(its, group(i), "NR")
        chosen(i) == IF nt_items(i) # <<>> THEN nt_items(i) ELSE nr_items(i)
        fails == \E k \in DOMAIN firsts : KeyFails(its, chosen(firsts[k]))
        kept == SelectSeq(firsts, LAMBDA i : chosen(i) # <<>>)
        ret_idx == [k \in DOMAIN kept |-> latest(its, chosen(kept[k]))]
    IN  IF fails THEN [called |-> TRUE, error |-> "IndexError"]
        ELSE [called |-> TRUE, error |-> "none", ret_idx |-> ret_idx,
              ret |-> [k \in DOMAIN ret_idx |-> its[ret_idx[k]]]]

\* The identifiers the catalog hands to the deduplicator:
\*   S3A (_ sensing){n-1} (_)? processing _O_ (tag _)?
\* sens is the sensing timestamp (start and end), proc the processing one,
\* n the number of timestamps, us whether "_" precedes the final timestamp.
S3Id(sens, proc, n, tag, us) ==
    LET stamps == [k \in 1..n |-> IF k = n THEN proc ELSE sens]
        RECURSIVE Body(_)
        Body(k) == IF k > n THEN <<>>
                   ELSE (IF k = n /\ ~us THEN <<>> ELSE <<"_">>)
                        \o <<stamps[k]>> \o Body(k + 1)
    IN  <<"S3A">> \o Body(1) \o <<"_", "O", "_">>
        \o (IF tag = "none" THEN <<>> ELSE <<tag, "_">>)

S3Tags == {"NT", "NR", "none"}
S3WellFormedIds ==
    {S3Id("T1", proc, 3, tag, TRUE) : proc \in {"T1", "T2"}, tag \in S3Tags}
    \cup {S3Id("T2", "T1", 3, tag, TRUE) : tag \in {"NT", "NR"}}
S3MalformedIds ==
    {S3Id("T1", "T2", 0, tag, TRUE) : tag \in {"NT", "none"}}
    \cup {S3Id("T1", "T2", 1, "NR", TRUE)}
S3OddIds ==
    {S3Id("T1", "T2", 4, "NT", TRUE), S3Id("T1", "T1", 3, "NR", FALSE)}
S3Ids == S3WellFormedIds \cup S3MalformedIds \cup S3OddIds

\* Bound of the deduplicator's input: the number of items in the list.
MaxS3Items == 3
S3ItemLists == SeqsOf({[id |-> id] : id \in S3Ids}, 0, MaxS3Items)

InitSen3 ==
    /\ s3_items \in S3ItemLists
    /\ s3_result = NotCalled /\ s3_log = <<>>
    /\ s3_grouped_items = NotCalled /\ s3_ds_final = NotCalled
IdleSen3 ==
    /\ s3_items = <<>>
    /\ s3_result = NotCalled /\ s3_log = <<>>
    /\ s3_grouped_items = NotCalled /\ s3_ds_final = NotCalled

\* One call of _filter_acquisition_time(s3_items).
FilterAcquisitionTime ==
    /\ ~s3_result.called
    /\ s3_result' = _filter_acquisition_time(s3_items)
    /\ s3_log' = BaseIdLogs(s3_items, 1)
    /\ UNCHANGED <<callVars, s3_items, s3_grouped_items, s3_ds_final, mosaicVars,
                   baseIdVars, sen2Vars>>

(***************************************************************************)
(* Temporal normalizer: utils.py add_nominal_datetime                      *)
(*                                                                         *)
(* Timestamps are whole hours since an epoch (every offset the code adds   *)
(* is a whole number of hours), a date is the day number.  Longitudes are  *)
(* in half degrees, so that the centre of an integer bounding box is exact.*)
(***************************************************************************)
\* datetime.date(): the day number of an hour count.
date(dt) == dt \div 24

\* utils.py 68: (center_x, center_y), each in half degrees.
get_center_from_bbox(bbox) == <<bbox[1] + bbox[3], bbox[2] + bbox[4]>>

\* Python's int(x) of the quotient a / b (b > 0): rounds toward zero.
IntOfQuotient(a, b) == IF a >= 0 THEN a \div b ELSE -((-a) \div b)

\* A plausible slip: the offset floored instead of truncated.
convert_to_solar_time_floor(utc, longitude) ==
    utc + (longitude \div 30)

\* utils.py 88-89: int(longitude / 15) hours, the longitude in half degrees.
convert_to_solar_time(utc, longitude) ==
    utc + IntOfQuotient(longitude, 30)

\* utils.py 50-55: each item gains center_point and datetime_nominal.
add_nominal_datetime(its) ==
    [i \in DOMAIN its |->
        LET center_point == get_center_from_bbox(its[i].bbox)
        IN  [k \in DOMAIN its[i] \cup {"center_point", "datetime_nominal"} |->
                IF k = "center_point" THEN center_point
                ELSE IF k = "datetime_nominal"
                     THEN convert_to_solar_time(its[i].datetime, center_point[1])
                     ELSE its[i][k]]]

(***************************************************************************)
(* Tiled item grouper: sentinel2.py group_items                            *)
(***************************************************************************)
\* The position of v in the sorted sequence s: np.where(s == v)[0][0].
IndexOf(s, v) == CHOOSE k \in DOMAIN s : s[k] = v /\ \A j \in 1..(k - 1) : s[j] # v

\* A plausible slip: the cell is overwritten instead of appended to.
put_overwrite(cell, item) == <<item>>

\* A cap as the one the specification describes: only the first 2 are kept.
put_capped(cell, item) == IF Len(cell) >= 2 THEN cell ELSE Append(cell, item)

\* sentinel2.py 215-218: a cell that is None becomes [item], a list is
\* appended to (None and the empty list are both <<>> here, as lines 219-222
\* turn every None left into []).
put(cell, item) == Append(cell, item)

\* sentinel2.py 210-218: the items its[i..] scattered into the cells.
RECURSIVE Scatter(_, _, _, _, _)
Scatter(its, dates, tile_ids, i, cells) ==
    IF i > Len(its) THEN cells
    ELSE LET idx_date == IndexOf(dates, date(its[i].datetime_nominal))
             idx_tile_id == IndexOf(tile_ids, its[i].grid_code)
         IN  Scatter(its, dates, tile_ids, i + 1,
                     [cells EXCEPT ![<<idx_date, idx_tile_id>>] = put(@, its[i])])

\* A plausible slip: the cells of one date concatenated from the last tile
\* to the first.
RECURSIVE RowItems_reversed(_, _, _, _)
RowItems_reversed(values, n_tiles, idx_date, idx_tile_id) ==
    IF idx_tile_id > n_tiles THEN <<>>
    ELSE RowItems_reversed(values, n_tiles, idx_date, idx_tile_id + 1)
         \o values[<<idx_date, idx_tile_id>>]

\* np.sum of a row of the index: the cells of one date, concatenated in
\* tile order.
RECURSIVE RowItems(_, _, _, _)
RowItems(values, n_tiles, idx_date, idx_tile_id) ==
    IF idx_tile_id > n_tiles THEN <<>>
    ELSE values[<<idx_date, idx_tile_id>>]
         \o RowItems(values, n_tiles, idx_date, idx_tile_id + 1)

\* np.sum of a column of the index: the cells of one tile, concatenated in
\* time order.
RECURSIVE ColumnItems(_, _, _, _)
ColumnItems(values, n_dates, idx_date, idx_tile_id) ==
    IF idx_date > n_dates THEN <<>>
    ELSE values[<<idx_date, idx_tile_id>>]
         \o ColumnItems(values, n_dates, idx_date + 1, idx_tile_id)

\* A plausible slip: the tile_id axis holds every tile id up to the largest
\* one of the items, not only the tile ids of the items.
group_items_all_tiles(items_in) ==
    LET its == add_nominal_datetime(items_in)
        dates == Ascending({date(its[i].datetime_nominal) : i \in DOMAIN its})
        codes == {its[i].grid_code : i \in DOMAIN its}
        tile_ids == Ascending({c \in 1..100 : \E m \in codes : c <= m})
        shape == (1..Len(dates)) \X (1..Len(tile_ids))
        values == Scatter(its, dates, tile_ids, 1, [c \in shape |-> <<>>])
        dts == [d \in DOMAIN dates |->
                   RowItems(values, Len(tile_ids), d, 1)[1].datetime_nominal]
    IN  [items |-> its,
         grouped_items |-> [built |-> TRUE, time |-> dts, tile_id |-> tile_ids,
                            values |-> values]]

\* sentinel2.py 193-240.  The index has the coordinates time and tile_id and
\* one list of items per (time, tile_id) position; items are returned too,
\* as the call adds the nominal time to the items it was given.
group_items(items_in) ==
    LET its == add_nominal_datetime(items_in)
        dates == Ascending({date(its[i].datetime_nominal) : i \in DOMAIN its})
        tile_ids == Ascending({its[i].grid_code : i \in DOMAIN its})
        shape == (1..Len(dates)) \X (1..Len(tile_ids))
        values == Scatter(its, dates, tile_ids, 1, [c \in shape |-> <<>>])
        \* replace date by datetime from first item
        dts == [d \in DOMAIN dates |->
                   RowItems(values, Len(tile_ids), d, 1)[1].datetime_nominal]
    IN  [items |-> its,
         grouped_items |-> [built |-> TRUE, time |-> dts, tile_id |-> tile_ids,
                            values |-> values]]

(***************************************************************************)
(* Sen2ProductHandler.open_data: sentinel2.py 124-154                      *)
(***************************************************************************)
NoError == [type |-> "none"]
NotBuilt == [built |-> FALSE]
NoDataset == [returned |-> FALSE]

\* open_params.get(key)
Get(params, key) == IF key \in DOMAIN params THEN params[key] ELSE "None"

\* sentinel2.py 106-122: the schema's properties and its required keys.
SchemaProperties ==
    {"variables", "spatial_res", "time_range", "bbox", "crs", "tile_size",
     "query", "agg_methods", "spline_orders"}
SchemaRequired == {"time_range", "bbox", "crs", "spatial_res"}

\* schema.validate_instance(open_params): every required key is given and,
\* as additional_properties=False, no key outside the schema's properties.
validate_instance(params) ==
    /\ SchemaRequired \subseteq DOMAIN params
    /\ DOMAIN params \subseteq SchemaProperties

\* reproject_bbox(bbox, source_crs, target_crs), an external collaborator:
\* the result is named by what it was computed from.
reproject_bbox(bbox, source_crs, target_crs) ==
    [bbox |-> bbox, source_crs |-> source_crs, target_crs |-> target_crs]

\* sentinel2.py 129-137
SearchParams(id, params) ==
    [collections |-> <<id>>,
     datetime |-> params["time_range"],
     bbox |-> reproject_bbox(params["bbox"], params["crs"], "EPSG:4326"),
     query |-> Get(params, "query")]

\* A plausible slip: validation reports an error and the call goes on.
after_validate_goes_on(ok) == "search"

\* sentinel2.py 126: validate_instance raises, or open_data goes on.
after_validate(ok) == IF ok THEN "search" ELSE "raised"

\* A plausible slip: the check for an empty search result is missing.
no_items_found_missing(found) == FALSE

\* sentinel2.py 140
no_items_found(found) == Len(found) = 0

\* A plausible slip: a zone of its own for every tile id.
utm_tile_id_per_tile(g) ==
    [k \in DOMAIN g.tile_id |->
        <<ColumnItems(g.values, Len(g.time), 1, k)[1].proj_code, <<k>>>>]

\* sentinel2.py 261-266: the tile ids by CRS, as the sequence of zones in
\* order of first appearance, each zone <<crs, tile positions>>.
RECURSIVE ZonesFrom(_, _, _)
ZonesFrom(g, idx_tile_id, zones) ==
    IF idx_tile_id > Len(g.tile_id) THEN zones
    ELSE LET item == ColumnItems(g.values, Len(g.time), 1, idx_tile_id)[1]
             crs == item.proj_code
             hit == {z \in DOMAIN zones : zones[z][1] = crs}
         IN  ZonesFrom(g, idx_tile_id + 1,
                 IF hit = {} THEN Append(zones, <<crs, <<idx_tile_id>>>>)
                 ELSE LET z == CHOOSE h \in hit : TRUE
                      IN  [zones EXCEPT ![z] = <<crs, Append(@[2], idx_tile_id)>>])

\* A plausible slip: the zones in the reverse of the order in which their
\* CRSs first appear.
utm_tile_id_reversed(g) ==
    LET zones == ZonesFrom(g, 1, <<>>)
    IN  [z \in DOMAIN zones |-> zones[Len(zones) + 1 - z]]

\* sentinel2.py 261-266: the zones of the index.
utm_tile_id(g) == ZonesFrom(g, 1, <<>>)

(***************************************************************************)
(* Sentinel-2 cube generation: sentinel2.py generate_cube,                 *)
(* _generate_utm_cube, _create_empty_dataset, _insert_tile_data            *)
(*                                                                         *)
(* Coordinates are whole metres in a CRS.  A dataset is a record of data   *)
(* variables and attributes; a data variable carries its dimension names,  *)
(* its coordinates (x ascending, y descending, spatial_ref the CRS) and    *)
(* its data, one value per position <<iy, ix>> or <<it, iy, ix>>.          *)
(***************************************************************************)
\* Python's None, and the test "is None".
None == [none |-> TRUE]
IsNone(ds) == "none" \in DOMAIN ds

Min(S) == CHOOSE m \in S : \A n \in S : m <= n
Max(S) == CHOOSE m \in S : \A n \in S : n <= m

\* np.arange(start, stop, step) for whole numbers and a step other than 0.
RECURSIVE arange(_, _, _)
arange(start, stop, step) ==
    IF (step > 0 /\ start >= stop) \/ (step < 0 /\ start <= stop) THEN <<>>
    ELSE <<start>> \o arange(start + step, stop, step)

\* The origin of a CRS in a common plane: a change of CRS is modelled as
\* the translation between the two origins.
CrsOrigin(crs) ==
    CASE crs = "EPSG:32633" -> <<0, 0>>
      [] crs = "EPSG:32625" -> <<-10, 0>>
      [] crs = "EPSG:32632" -> <<-600, -5880>>
      [] OTHER -> <<0, 0>>

\* The coordinates of the bounding box that reproject_bbox returns.
Coordinates(rb) ==
    LET dx == CrsOrigin(rb.source_crs)[1] - CrsOrigin(rb.target_crs)[1]
        dy == CrsOrigin(rb.source_crs)[2] - CrsOrigin(rb.target_crs)[2]
    IN  <<rb.bbox[1] + dx, rb.bbox[2] + dy, rb.bbox[3] + dx, rb.bbox[4] + dy>>

\* sentinel2.py 48
_SEN2_SPATIAL_RES == <<10, 20, 60>>

\* xcube_eopf/constants.py, imported at sentinel2.py 27: metres per degree.
CONVERSION_FACTOR_DEG_METER == 111320

\* pyproj's crs.is_geographic for the CRSs of the model.
is_geographic(crs) == crs = "EPSG:4326"

\* sentinel2.py 653-656: the requested resolution in millionths of a metre.
\* open_params["spatial_res"] is in whole metres for a projected CRS and in
\* millionths of a degree for a geographic one.
requested_micrometres(params) ==
    IF is_geographic(params["crs"])
    THEN params["spatial_res"] * CONVERSION_FACTOR_DEG_METER
    ELSE params["spatial_res"] * 1000000

\* A plausible slip: a strict comparison, so that a request equal to a
\* native resolution gets the next coarser one.
_get_spatial_res_strict(params) ==
    LET spatial_res == requested_micrometres(params)
        idxs == Ascending({i \in DOMAIN _SEN2_SPATIAL_RES :
                              _SEN2_SPATIAL_RES[i] * 1000000 > spatial_res})
    IN  IF Len(idxs) = 0 THEN 60 ELSE _SEN2_SPATIAL_RES[idxs[1]]

\* sentinel2.py 652-663: the first native resolution that is not finer than
\* the requested one, 60 when there is none.
_get_spatial_res(params) ==
    LET spatial_res == requested_micrometres(params)
        idxs == Ascending({i \in DOMAIN _SEN2_SPATIAL_RES :
                              _SEN2_SPATIAL_RES[i] * 1000000 >= spatial_res})
    IN  IF Len(idxs) = 0 THEN 60 ELSE _SEN2_SPATIAL_RES[idxs[1]]

\* sentinel2.py 618-632: the box around the proj:bbox of the first item of
\* each of the tiles (positions on the tile_id axis).
_get_bounding_box(g, tiles) ==
    LET bbox(k) == ColumnItems(g.values, Len(g.time), 1, tiles[k])[1].proj_bbox
        K == DOMAIN tiles
    IN  <<Min({bbox(k)[1] : k \in K}), Min({bbox(k)[2] : k \in K}),
          Max({bbox(k)[3] : k \in K}), Max({bbox(k)[4] : k \in K})>>

\* The data variables a call opens: open_params["variables"], or all.
VariablesOf(params) ==
    IF "variables" \in DOMAIN params THEN params["variables"] ELSE {"b02", "scl"}

\* xr.open_dataset(item.assets["product"].href, engine="eopf-zarr",
\* resolution=...), an external collaborator: the tile on its native grid,
\* every pixel of every variable holding a value that names the item and
\* the pixel (coordinates stay below 100).
xr_open_dataset(item, resolution, variables) ==
    LET pb == item.proj_bbox
        half_res == resolution \div 2
        x == arange(pb[1] + half_res, pb[3], resolution)
        y == arange(pb[4] - half_res, pb[2], -resolution)
    IN  [data_vars |->
            [key \in variables |->
                [dims |-> <<"y", "x">>,
                 coords |-> [x |-> x, y |-> y, spatial_ref |-> item.proj_code],
                 data |-> [p \in (1..Len(y)) \X (1..Len(x)) |->
                             item.id * 10000 + y[p[1]] * 100 + x[p[2]]]]],
         attrs |-> item.id]

\* The coordinates of a dataset: those of its variables.
coords(ds) ==
    LET key == CHOOSE k \in DOMAIN ds.data_vars : TRUE IN ds.data_vars[key].coords

\* A label slice on a monotonic index (pandas): the positions of the labels
\* from start to stop, both included, in the direction of the index.  An
\* index of fewer than two labels counts as increasing.
IsDecreasing(index) == Len(index) >= 2 /\ index[1] > index[2]
label_slice(index, start, stop) ==
    Ascending({i \in DOMAIN index :
                 IF IsDecreasing(index)
                 THEN index[i] <= start /\ index[i] >= stop
                 ELSE index[i] >= start /\ index[i] <= stop})

\* ds.sel(x=slice(x0, x1), y=slice(y0, y1)), sentinel2.py 364-367.
sel(ds, x0, x1, y0, y1) ==
    LET c == coords(ds)
        xs == label_slice(c.x, x0, x1)
        ys == label_slice(c.y, y0, y1)
        clip(var) ==
            [dims |-> var.dims,
             coords |-> [x |-> [i \in DOMAIN xs |-> c.x[xs[i]]],
                         y |-> [i \in DOMAIN ys |-> c.y[ys[i]]],
                         spatial_ref |-> c.spatial_ref],
             data |-> [p \in (1..Len(ys)) \X (1..Len(xs)) |->
                          var.data[<<ys[p[1]], xs[p[2]]>>]]]
    IN  [data_vars |-> [key \in DOMAIN ds.data_vars |-> clip(ds.data_vars[key])],
         attrs |-> ds.attrs]

\* ds.sizes.values(): the sizes of the dimensions y and x.
sizes(ds) == {Len(coords(ds).y), Len(coords(ds).x)}

\* A plausible slip: the canvas starts at the edges of the requested box,
\* not at the edges of the grid of the tiles around it.
_create_empty_dataset_unsnapped(sample_ds, g, items_bbox, final_bbox, spatial_res) ==
    LET half_res == spatial_res \div 2
        y == arange(final_bbox[4] - half_res, final_bbox[2], -spatial_res)
        x == arange(final_bbox[1] + half_res, final_bbox[3], spatial_res)
        shape == (1..Len(g.time)) \X (1..Len(y)) \X (1..Len(x))
    IN  [data_vars |->
            [key \in DOMAIN sample_ds.data_vars |->
                [dims |-> <<"time", "y", "x">>,
                 coords |-> [x |-> x, y |-> y, time |-> g.time,
                             spatial_ref |-> coords(sample_ds).spatial_ref],
                 data |-> [p \in shape |-> NaN]]],
         attrs |-> <<>>]

\* sentinel2.py 696-728: the canvas of a zone, all NaN, on the native grid
\* between the items' box and the requested box, one layer per time step.
_create_empty_dataset(sample_ds, g, items_bbox, final_bbox, spatial_res) ==
    LET half_res == spatial_res \div 2
        y_start == items_bbox[4]
                   - spatial_res * ((items_bbox[4] - final_bbox[4]) \div spatial_res)
        y_end == items_bbox[2]
                 + spatial_res * ((final_bbox[2] - items_bbox[2]) \div spatial_res)
        y == arange(y_start - half_res, y_end, -spatial_res)
        x_end == items_bbox[3]
                 - spatial_res * ((items_bbox[3] - final_bbox[3]) \div spatial_res)
        x_start == items_bbox[1]
                   + spatial_res * ((final_bbox[1] - items_bbox[1]) \div spatial_res)
        x == arange(x_start + half_res, x_end, spatial_res)
        shape == (1..Len(g.time)) \X (1..Len(y)) \X (1..Len(x))
    IN  [data_vars |->
            [key \in DOMAIN sample_ds.data_vars |->
                [dims |-> <<"time", "y", "x">>,
                 coords |-> [x |-> x, y |-> y, time |-> g.time,
                             spatial_ref |-> coords(sample_ds).spatial_ref],
                 data |-> [p \in shape |-> NaN]]],
         attrs |-> <<>>]

\* pandas Index.get_loc(label): the position of the label, 0 standing for
\* the KeyError raised when the index does not hold it.
get_loc(index, label) ==
    IF \E i \in DOMAIN index : index[i] = label
    THEN CHOOSE i \in DOMAIN index : index[i] = label
    ELSE 0

\* A plausible slip: the tile is written at the first time index, whatever
\* dt_idx is.
_insert_tile_data_first_time(canvas, ds, dt_idx) ==
    LET c == coords(canvas)
        t == coords(ds)
        xmin == get_loc(c.x, t.x[1])
        ymin == get_loc(c.y, t.y[1])
    IN  [error |-> "none",
         ds |-> [canvas EXCEPT !.data_vars =
                    [var \in DOMAIN canvas.data_vars |->
                        [canvas.data_vars[var] EXCEPT !.data =
                            [p \in DOMAIN canvas.data_vars[var].data |->
                                IF /\ p[1] = 1
                                   /\ p[2] \in ymin..(ymin + Len(t.y) - 1)
                                   /\ p[3] \in xmin..(xmin + Len(t.x) - 1)
                                   /\ var \in DOMAIN ds.data_vars
                                THEN ds.data_vars[var].data[
                                        <<p[2] - ymin + 1, p[3] - xmin + 1>>]
                                ELSE canvas.data_vars[var].data[p]]]]]]

\* The labels of an index at the positions lo..hi (none when hi < lo).
window(index, lo, hi) == [i \in 1..(hi - lo + 1) |-> index[lo + i - 1]]

\* A plausible slip: only the first and last coordinates of the tile are
\* looked up, and a tile of the shape of the slice between them is written
\* whatever its other coordinates are.
_insert_tile_data_endpoints_only(canvas, ds, dt_idx) ==
    LET c == coords(canvas)
        t == coords(ds)
        xmin == get_loc(c.x, t.x[1])
        xmax == get_loc(c.x, t.x[Len(t.x)])
        ymin == get_loc(c.y, t.y[1])
        ymax == get_loc(c.y, t.y[Len(t.y)])
    IN  IF 0 \in {xmin, xmax, ymin, ymax}
           \/ ~(DOMAIN ds.data_vars \subseteq DOMAIN canvas.data_vars)
        THEN [error |-> "KeyError"]
        ELSE IF ymax - ymin + 1 # Len(t.y) \/ xmax - xmin + 1 # Len(t.x)
        THEN [error |-> "ValueError"]
        ELSE [error |-> "none",
              ds |-> [canvas EXCEPT !.data_vars =
                        [var \in DOMAIN canvas.data_vars |->
                            [canvas.data_vars[var] EXCEPT !.data =
                                [p \in DOMAIN canvas.data_vars[var].data |->
                                    IF /\ p[1] = dt_idx
                                       /\ p[2] \in ymin..ymax
                                       /\ p[3] \in xmin..xmax
                                       /\ var \in DOMAIN ds.data_vars
                                    THEN ds.data_vars[var].data[
                                            <<p[2] - ymin + 1, p[3] - xmin + 1>>]
                                    ELSE canvas.data_vars[var].data[p]]]]]]

\* A plausible slip: a pixel of the tile without data leaves the canvas as
\* it is (the first-valid-pixel rule instead of plain assignment).
_insert_tile_data_keep_valid(canvas, ds, dt_idx) ==
    LET c == coords(canvas)
        t == coords(ds)
        xmin == get_loc(c.x, t.x[1])
        xmax == get_loc(c.x, t.x[Len(t.x)])
        ymin == get_loc(c.y, t.y[1])
        ymax == get_loc(c.y, t.y[Len(t.y)])
    IN  IF 0 \in {xmin, xmax, ymin, ymax}
           \/ ~(DOMAIN ds.data_vars \subseteq DOMAIN canvas.data_vars)
        THEN [error |-> "KeyError"]
        ELSE IF window(c.y, ymin, ymax) # t.y \/ window(c.x, xmin, xmax) # t.x
        THEN [error |-> "IndexError"]
        ELSE [error |-> "none",
              ds |-> [canvas EXCEPT !.data_vars =
                        [var \in DOMAIN canvas.data_vars |->
                            [canvas.data_vars[var] EXCEPT !.data =
                                [p \in DOMAIN canvas.data_vars[var].data |->
                                    IF /\ p[1] = dt_idx
                                       /\ p[2] \in ymin..ymax
                                       /\ p[3] \in xmin..xmax
                                       /\ var \in DOMAIN ds.data_vars
                                       /\ ds.data_vars[var].data[
                                            <<p[2] - ymin + 1, p[3] - xmin + 1>>] # NaN
                                    THEN ds.data_vars[var].data[
                                            <<p[2] - ymin + 1, p[3] - xmin + 1>>]
                                    ELSE canvas.data_vars[var].data[p]]]]]]

\* sentinel2.py 401-407: the tile written into the canvas at time index
\* dt_idx (counted from 1), at the positions of its first and last
\* coordinates.  KeyError when the canvas does not hold such a coordinate or
\* such a variable.  IndexError when the y or x coordinates of the tile are
\* not those of the canvas between the two positions: the assignment of a
\* DataArray to a slice (line 406) checks the dimension coordinates of the
\* value against those of the slice before it writes.  The lookups and the
\* check of the first variable come before any write.
_insert_tile_data(canvas, ds, dt_idx) ==
    LET c == coords(canvas)
        t == coords(ds)
        xmin == get_loc(c.x, t.x[1])
        xmax == get_loc(c.x, t.x[Len(t.x)])
        ymin == get_loc(c.y, t.y[1])
        ymax == get_loc(c.y, t.y[Len(t.y)])
    IN  IF 0 \in {xmin, xmax, ymin, ymax}
           \/ ~(DOMAIN ds.data_vars \subseteq DOMAIN canvas.data_vars)
        THEN [error |-> "KeyError"]
        ELSE IF window(c.y, ymin, ymax) # t.y \/ window(c.x, xmin, xmax) # t.x
        THEN [error |-> "IndexError"]
        ELSE [error |-> "none",
              ds |-> [canvas EXCEPT !.data_vars =
                        [var \in DOMAIN canvas.data_vars |->
                            [canvas.data_vars[var] EXCEPT !.data =
                                [p \in DOMAIN canvas.data_vars[var].data |->
                                    IF /\ p[1] = dt_idx
                                       /\ p[2] \in ymin..ymax
                                       /\ p[3] \in xmin..xmax
                                       /\ var \in DOMAIN ds.data_vars
                                    THEN ds.data_vars[var].data[
                                            <<p[2] - ymin + 1, p[3] - xmin + 1>>]
                                    ELSE canvas.data_vars[var].data[p]]]]]]

\* sentinel2.py 368: a tile clipped to nothing has a dimension of size 0.
clipped_to_empty(ds) == \E size \in sizes(ds) : size = 0

\* A plausible slip: a canvas is built for every cell that has a tile.
canvas_missing_always(canvas) == TRUE

\* sentinel2.py 374: the canvas is built when there is none yet.
canvas_missing(canvas) == IsNone(canvas)

\* sentinel2.py 355-378: the body of the loops of _generate_utm_cube for the
\* cell (dt_idx, tiles[k]) of the zone crs_utm.  n_built is the number of
\* canvases built before (a history value: it gives each canvas a serial).
\* The outcome: the canvas, the items opened, the canvases built and the
\* insertions made, and the error raised, if any.
generate_utm_cube_cell(g, tiles, crs_utm, params, canvas, dt_idx, k, n_built) ==
    LET items_bbox == _get_bounding_box(g, tiles)
        final_bbox == Coordinates(reproject_bbox(params["bbox"], params["crs"],
                                                 crs_utm))
        spatial_res == _get_spatial_res(params)
        its == g.values[<<dt_idx, tiles[k]>>]
        clipped == [j \in DOMAIN its |->
                      sel(xr_open_dataset(its[j], spatial_res, VariablesOf(params)),
                          final_bbox[1], final_bbox[3], final_bbox[4], final_bbox[2])]
        multi_tiles == SelectSeq(clipped, LAMBDA ds : ~clipped_to_empty(ds))
        opened_ids == [j \in DOMAIN its |-> its[j].id]
        at == [tile |-> tiles[k], dt_idx |-> dt_idx]
    IN  IF multi_tiles = <<>>
        THEN [error |-> "none", final_ds |-> canvas, opened |-> opened_ids,
              events |-> <<>>]
        ELSE
        LET mosaicked_ds == mosaic_spatial_take_first(multi_tiles).ds
            build == canvas_missing(canvas)
            target ==
                IF build
                THEN [canvas |-> _create_empty_dataset(mosaicked_ds, g, items_bbox,
                                                       final_bbox, spatial_res),
                      serial |-> n_built + 1]
                ELSE canvas
            inserted == _insert_tile_data(target.canvas, mosaicked_ds, dt_idx)
            events ==
                (IF build THEN <<[op |-> "create", serial |-> target.serial,
                                  at |-> at]>>
                 ELSE <<>>)
                \o <<[op |-> "insert", serial |-> target.serial, at |-> at]>>
        IN  IF inserted.error # "none"
            THEN [error |-> inserted.error, final_ds |-> target,
                  opened |-> opened_ids, events |-> events]
            ELSE [error |-> "none",
                  final_ds |-> [canvas |-> inserted.ds, serial |-> target.serial],
                  opened |-> opened_ids, events |-> events]

(***************************************************************************)
(* Merging the zones: sentinel2.py _merge_utm_zones, _resample_dataset_soft *)
(*                                                                         *)
(* A grid mapping is a record of its CRS, its resolution, its bounding box *)
(* and its size <<width, height>>.                                         *)
(***************************************************************************)
\* sentinel2.py 49
_TILE_SIZE == 1830

\* GridMapping.from_dataset(ds), an external collaborator: the grid of the
\* coordinates x and y of the dataset (at least two of each).
from_dataset(ds) ==
    LET c == coords(ds)
        res_x == c.x[2] - c.x[1]
        res_y == c.y[1] - c.y[2]
    IN  [crs |-> c.spatial_ref,
         xy_res |-> <<res_x, res_y>>,
         xy_bbox |-> <<c.x[1] - res_x \div 2, c.y[Len(c.y)] - res_y \div 2,
                       c.x[Len(c.x)] + res_x \div 2, c.y[1] + res_y \div 2>>,
         size |-> <<Len(c.x), Len(c.y)>>]

\* -(-a // b): the quotient rounded up.
CeilOfQuotient(a, b) == -((-a) \div b)

\* get_gridmapping(bbox, spatial_res, crs, tile_size), an external
\* collaborator: a regular grid over the box at the resolution, computed
\* from the request (fresh |-> what it was computed from).
get_gridmapping(bbox, spatial_res, crs, tile_size) ==
    [crs |-> crs,
     xy_res |-> <<spatial_res, spatial_res>>,
     xy_bbox |-> bbox,
     size |-> <<CeilOfQuotient(bbox[3] - bbox[1], spatial_res),
                CeilOfQuotient(bbox[4] - bbox[2], spatial_res)>>,
     fresh |-> [bbox |-> bbox, spatial_res |-> spatial_res, crs |-> crs,
                tile_size |-> tile_size]]

\* GridMapping.is_close(other), an external collaborator: same CRS, same
\* resolution, same box, same size.
is_close(source_gm, other) ==
    /\ source_gm.crs = other.crs
    /\ source_gm.xy_res = other.xy_res
    /\ source_gm.xy_bbox = other.xy_bbox
    /\ source_gm.size = other.size

\* Python's abs on whole numbers.
abs(n) == IF n < 0 THEN -n ELSE n

\* A plausible slip: the spacing of the zone is never looked at.
resolution_differs_never(ds, spatial_res) == FALSE

\* sentinel2.py 447-450: the spacing of the zone is not the requested one.
resolution_differs(ds, spatial_res) ==
    \/ coords(ds).x[2] - coords(ds).x[1] # spatial_res[1]
    \/ abs(coords(ds).y[2] - coords(ds).y[1]) # spatial_res[2]

\* sentinel2.py 436-463: the target grid mapping.  TypeError when a zone has
\* no canvas (None has no "spatial_ref"), IndexError when the zone that
\* matches the target CRS has a single column or row.
select_target_gm(lds, params) ==
    LET fresh == get_gridmapping(params["bbox"], params["spatial_res"],
                                 params["crs"],
                                 IF "tile_size" \in DOMAIN params
                                 THEN params["tile_size"] ELSE _TILE_SIZE)
    IN  IF \E i \in DOMAIN lds : IsNone(lds[i])
        THEN [error |-> "TypeError"]
        ELSE
        LET crss == [i \in DOMAIN lds |-> coords(lds[i].canvas).spatial_ref]
            target_crs == params["crs"]
            crss_equal == {i \in DOMAIN lds : target_crs = crss[i]}
        IN  IF crss_equal # {}
            THEN LET true_index == Min(crss_equal)
                     ds == lds[true_index].canvas
                     spatial_res == <<params["spatial_res"], params["spatial_res"]>>
                 IN  IF Len(coords(ds).x) < 2 \/ Len(coords(ds).y) < 2
                     THEN [error |-> "IndexError"]
                     ELSE IF resolution_differs(ds, spatial_res)
                     THEN [error |-> "none", target_gm |-> fresh]
                     ELSE [error |-> "none", target_gm |-> from_dataset(ds),
                           reused |-> true_index]
            ELSE [error |-> "none", target_gm |-> fresh]

\* An override of the open parameters (spline_orders, agg_methods): absent
\* (None), a single value, or a dict as the sequence of its items
\* <<method, list of variable names and dtypes>>.
NoOverride == [kind |-> "none"]
Override(params, key) == IF key \in DOMAIN params THEN params[key] ELSE NoOverride

\* var.dtype of a data variable.
dtype(key) == IF key = "scl" THEN "uint8" ELSE "float32"

\* A plausible slip: the last item that lists the variable wins.
first_match_last(override, key) ==
    LET hits == {i \in DOMAIN override.items :
                    key \in override.items[i][2] \/ dtype(key) \in override.items[i][2]}
    IN  IF hits = {} THEN [kind |-> "none"]
        ELSE [kind |-> "value", value |-> override.items[Max(hits)][1]]

\* The method a dict override selects for a variable: that of the first
\* item that lists the variable's name or dtype; "none" when no item does.
first_match(override, key) ==
    LET hits == {i \in DOMAIN override.items :
                    key \in override.items[i][2] \/ dtype(key) \in override.items[i][2]}
    IN  IF hits = {} THEN [kind |-> "none"]
        ELSE [kind |-> "value", value |-> override.items[Min(hits)][1]]

\* The method an override selects for a variable, before the defaults.
selected(override, key) ==
    IF override.kind = "dict" THEN first_match(override, key)
    ELSE IF override.kind = "value" THEN [kind |-> "value", value |-> override.value]
    ELSE [kind |-> "none"]

CorruptedWarning(what, method) ==
    [level |-> "WARNING", msg |-> "may produce corrupted results",
     what |-> what, var |-> "scl", method |-> method]

\* sentinel2.py 552-574: the spline order of a variable and the warnings
\* logged.
_get_var_spline_order(spline_orders, key) ==
    LET sel_order == selected(spline_orders, key)
        spline_order == IF sel_order.kind = "none"
                        THEN (IF key = "scl" THEN 0 ELSE 3)
                        ELSE sel_order.value
    IN  [value |-> spline_order,
         log |-> IF key = "scl" /\ spline_order # 0
                 THEN <<CorruptedWarning("Spline order", spline_order)>>
                 ELSE <<>>]

\* sentinel2.py 577-599: the aggregation method of a variable and the
\* warnings logged.
_get_var_agg_method(agg_methods, key) ==
    LET sel_method == selected(agg_methods, key)
        agg_method == IF sel_method.kind = "none"
                      THEN (IF key = "scl" THEN "center" ELSE "mean")
                      ELSE sel_method.value
    IN  [value |-> agg_method,
         log |-> IF key = "scl"
                    /\ agg_method \notin {"center", "first", "last", "max", "min"}
                 THEN <<CorruptedWarning("Aggregation method", agg_method)>>
                 ELSE <<>>]

\* Python's truth value of an override: None, 0 and the empty dict are
\* false.
truthy(override) ==
    CASE override.kind = "none" -> FALSE
      [] override.kind = "value" -> override.value # 0
      [] override.kind = "dict" -> Len(override.items) > 0

NotSupportedWarning ==
    [level |-> "WARNING",
     msg |-> "User-defined spline-orders is not supported yet"]

\* The values of a resampled pixel are computed by the resampler, an
\* external collaborator: a layer without data stays NaN, every other pixel
\* holds this value.
Resampled == 0

\* affine_transform_dataset / reproject_dataset, external collaborators: the
\* dataset on the target grid, each variable named by the resampler that
\* computed it (how) and by the arguments the resampler got for it (by).
resampled_dataset(ds, target_gm_, how, by) ==
    LET shape(var) == (1..Len(var.coords.time)) \X (1..target_gm_.size[2])
                      \X (1..target_gm_.size[1])
        no_data(var, it) == \A p \in DOMAIN var.data : p[1] = it => var.data[p] = NaN
    IN  [data_vars |->
            [key \in DOMAIN ds.data_vars |->
                [dims |-> ds.data_vars[key].dims,
                 coords |-> [grid |-> target_gm_,
                             time |-> ds.data_vars[key].coords.time,
                             spatial_ref |-> target_gm_.crs],
                 data |-> [p \in shape(ds.data_vars[key]) |->
                             IF no_data(ds.data_vars[key], p[1]) THEN NaN
                             ELSE Resampled],
                 resampled |-> how,
                 by |-> by[key]]],
         attrs |-> ds.attrs]

\* sentinel2.py 63
_INTERPOLATIONS == (0 :> "nearest") @@ (2 :> "bilinear")

\* ds[names]: the dataset of the variables named.
subset(ds, names) ==
    [ds EXCEPT !.data_vars = [key \in names |-> ds.data_vars[key]]]

\* first.update(second): the variables of both, those of second winning.
update(first, second) ==
    [first EXCEPT !.data_vars =
        [key \in DOMAIN first.data_vars \cup DOMAIN second.data_vars |->
            IF key \in DOMAIN second.data_vars THEN second.data_vars[key]
            ELSE first.data_vars[key]]]

\* A plausible slip: "scl" is reprojected in the one pass of the others.
reprojection_passes_single(ds) == <<<<DOMAIN ds.data_vars, 2>>>>

\* sentinel2.py 528-533: the passes of the reprojection, each the names of
\* its variables and its spline order.
reprojection_passes(ds) ==
    IF "scl" \in DOMAIN ds.data_vars
    THEN <<<<DOMAIN ds.data_vars \ {"scl"}, 2>>, <<{"scl"}, 0>>>>
    ELSE <<<<DOMAIN ds.data_vars, 2>>>>

\* sentinel2.py 494-507: the affine transform with the spline order and the
\* aggregator of each variable.
affine_transformed(ds, target_gm_, spline_orders, agg_methods) ==
    LET var_configs ==
            [key \in DOMAIN ds.data_vars |->
                [recover_nan |-> TRUE,
                 spline_order |-> _get_var_spline_order(spline_orders, key).value,
                 aggregator |-> _get_var_agg_method(agg_methods, key).value]]
    IN  resampled_dataset(ds, target_gm_, "affine_transform_dataset", var_configs)

\* sentinel2.py 519-548: the reprojection, pass by pass, each pass with its
\* interpolation and the aggregators of all variables, and the passes put
\* together again.
reprojected(ds, target_gm_, agg_methods) ==
    LET var_configs ==
            [key \in DOMAIN ds.data_vars |->
                [recover_nan |-> TRUE,
                 aggregator |-> _get_var_agg_method(agg_methods, key).value]]
        passes == reprojection_passes(ds)
        dss_reprojected ==
            [i \in DOMAIN passes |->
                resampled_dataset(
                    subset(ds, passes[i][1]), target_gm_, "reproject_dataset",
                    [key \in passes[i][1] |->
                        [interpolation |-> _INTERPOLATIONS[passes[i][2]],
                         downscale_var_configs |-> var_configs,
                         pass |-> i]])]
    IN  IF Len(dss_reprojected) = 1 THEN dss_reprojected[1]
        ELSE update(dss_reprojected[1], dss_reprojected[2])

\* The keys of a mapping in iteration order (here: sorted by name, "b02"
\* before "scl").
KeysInOrder(vars_) ==
    (IF "b02" \in vars_ THEN <<"b02">> ELSE <<>>)
    \o (IF "scl" \in vars_ THEN <<"scl">> ELSE <<>>)

\* The warnings of the loop sentinel2.py 495-500 over the variables keys[i..].
RECURSIVE AffineLogs(_, _, _, _)
AffineLogs(keys, spline_orders, agg_methods, i) ==
    IF i > Len(keys) THEN <<>>
    ELSE _get_var_spline_order(spline_orders, keys[i]).log
         \o _get_var_agg_method(agg_methods, keys[i]).log
         \o AffineLogs(keys, spline_orders, agg_methods, i + 1)

\* The warnings of the loop sentinel2.py 521-525 over the variables keys[i..].
RECURSIVE ReprojectLogs(_, _, _)
ReprojectLogs(keys, agg_methods, i) ==
    IF i > Len(keys) THEN <<>>
    ELSE _get_var_agg_method(agg_methods, keys[i]).log
         \o ReprojectLogs(keys, agg_methods, i + 1)

\* A plausible slip: no shortcut for a zone that is on the target grid.
_resample_dataset_soft_always(ds, target_gm_, params) ==
    LET source_gm == from_dataset(ds)
        keys == KeysInOrder(DOMAIN ds.data_vars)
    IN  IF target_gm_.crs = source_gm.crs
        THEN [ds |-> affine_transformed(ds, target_gm_,
                                        Override(params, "spline_orders"),
                                        Override(params, "agg_methods")),
              path |-> "affine",
              log |-> AffineLogs(keys, Override(params, "spline_orders"),
                                 Override(params, "agg_methods"), 1)]
        ELSE [ds |-> reprojected(ds, target_gm_, Override(params, "agg_methods")),
              path |-> "reproject",
              log |-> (IF truthy(Override(params, "spline_orders"))
                       THEN <<NotSupportedWarning>> ELSE <<>>)
                      \o ReprojectLogs(keys, Override(params, "agg_methods"), 1)]

\* sentinel2.py 488-549: the zone on the target grid, the path taken and
\* the warnings logged.
_resample_dataset_soft(ds, target_gm_, params) ==
    LET source_gm == from_dataset(ds)
        keys == KeysInOrder(DOMAIN ds.data_vars)
    IN  IF is_close(source_gm, target_gm_)
        THEN [ds |-> ds, path |-> "unchanged", log |-> <<>>]
        ELSE IF target_gm_.crs = source_gm.crs
        THEN [ds |-> affine_transformed(ds, target_gm_,
                                        Override(params, "spline_orders"),
                                        Override(params, "agg_methods")),
              path |-> "affine",
              log |-> AffineLogs(keys, Override(params, "spline_orders"),
                                 Override(params, "agg_methods"), 1)]
        ELSE [ds |-> reprojected(ds, target_gm_, Override(params, "agg_methods")),
              path |-> "reproject",
              log |-> (IF truthy(Override(params, "spline_orders"))
                       THEN <<NotSupportedWarning>> ELSE <<>>)
                      \o ReprojectLogs(keys, Override(params, "agg_methods"), 1)]

\* datetime.isoformat() of a time in whole hours: the date and the hour of
\* the day ("YYYY-MM-DD" and "THH:00:00").
isoformat(dt) == <<dt \div 24, dt % 24>>

\* A plausible slip: the identifiers of a time step in input order.
add_attributes_input_order(g, params) ==
    LET key(d) == isoformat(g.time[d])
        last(k) == Max({d \in DOMAIN g.time : key(d) = k})
        ids(d) == LET row == RowItems(g.values, Len(g.tile_id), d, 1)
                  IN  Ascending({row[j].id : j \in DOMAIN row})
    IN  [stac_url |-> "STAC_URL",
         stac_items |-> [k \in {key(d) : d \in DOMAIN g.time} |-> ids(last(k))],
         open_params |-> params,
         xcube_eopf_version |-> "version"]

\* sentinel2.py 300-312: the attributes of the final cube.  stac_items is a
\* dict from the ISO form of each time step to the ids of the items of its
\* row; a dict keeps the last value stored under a key.
add_attributes(g, params) ==
    LET key(d) == isoformat(g.time[d])
        last(k) == Max({d \in DOMAIN g.time : key(d) = k})
        ids(d) == LET row == RowItems(g.values, Len(g.tile_id), d, 1)
                  IN  [j \in DOMAIN row |-> row[j].id]
    IN  [stac_url |-> "STAC_URL",
         stac_items |-> [k \in {key(d) : d \in DOMAIN g.time} |-> ids(last(k))],
         open_params |-> params,
         xcube_eopf_version |-> "version"]

\* The open parameters tried: a valid call, one with a query, one without the
\* required crs, one with a key the schema does not know.
ValidParams ==
    [time_range |-> <<"2025-05-01", "2025-05-07">>, bbox |-> <<610, 5880, 630, 5900>>,
     crs |-> "EPSG:32632", spatial_res |-> 10]
OpenParamsTried ==
    {ValidParams,
     [k \in DOMAIN ValidParams \cup {"query"} |->
         IF k = "query" THEN "cloud_cover_lt_50" ELSE ValidParams[k]],
     [k \in DOMAIN ValidParams \ {"crs"} |-> ValidParams[k]],
     [k \in DOMAIN ValidParams \cup {"test"} |->
         IF k = "test" THEN "x" ELSE ValidParams[k]]}

\* The tiles of the catalog: tile code (standing for its name, in sorted
\* order), bounding box in degrees (min_x, min_y, max_x, max_y), CRS, and
\* bounding box in metres in that CRS ("proj:bbox").
CatalogTiles ==
    {[grid_code |-> 1, bbox |-> <<13, 50, 14, 51>>, proj_code |-> "EPSG:32633",
      proj_bbox |-> <<0, 0, 20, 20>>],
     [grid_code |-> 2, bbox |-> <<-31, 50, -30, 51>>, proj_code |-> "EPSG:32625",
      proj_bbox |-> <<0, 0, 20, 20>>],
     [grid_code |-> 3, bbox |-> <<15, 50, 17, 51>>, proj_code |-> "EPSG:32633",
      proj_bbox |-> <<20, 0, 40, 20>>]}
\* The acquisition times of the catalog, in hours: midnight and 23:00.
CatalogTimes == {24, 47}
CatalogItems ==
    {[datetime |-> t, bbox |-> tile.bbox, grid_code |-> tile.grid_code,
      proj_code |-> tile.proj_code, proj_bbox |-> tile.proj_bbox] :
        t \in CatalogTimes, tile \in CatalogTiles}

\* Item k of a search result has identifier k.
WithIds(found) ==
    [k \in DOMAIN found |->
        [f \in DOMAIN found[k] \cup {"id"} |->
            IF f = "id" THEN k ELSE found[k][f]]]

\* Bound of a search result: the number of items in it.
MaxItems == 3
SearchResults == {WithIds(f) : f \in SeqsOf(CatalogItems, 0, MaxItems)}

InitSen2 ==
    /\ pc = "validate"
    /\ data_id \in {"sentinel-2-l1c", "sentinel-2-l2a"}
    /\ open_params \in OpenParamsTried
    /\ search_params = "None"
    /\ items = <<>>
    /\ grouped_items = NotBuilt
    /\ opened = <<>>
    /\ ds_final = NoDataset
    /\ raised = NoError
    /\ calls = <<>>
    /\ LOG = <<>>
    /\ zone_idx = 0
    /\ loop_idx = <<0, 0>>
    /\ final_ds = None
    /\ list_ds_utm = <<>>
    /\ target_gm = None
    /\ resampled_list_ds = <<>>
    /\ canvas_log = <<>>
IdleSen2 ==
    /\ pc = "idle"
    /\ data_id = "sentinel-2-l2a"
    /\ open_params = ValidParams
    /\ search_params = "None"
    /\ items = <<>>
    /\ grouped_items = NotBuilt
    /\ opened = <<>>
    /\ ds_final = NoDataset
    /\ raised = NoError
    /\ calls = <<>>
    /\ LOG = <<>>
    /\ zone_idx = 0
    /\ loop_idx = <<0, 0>>
    /\ final_ds = None
    /\ list_ds_utm = <<>>
    /\ target_gm = None
    /\ resampled_list_ds = <<>>
    /\ canvas_log = <<>>

\* sentinel2.py 125-126
Validate ==
    /\ pc = "validate"
    /\ calls' = Append(calls, "validate_instance")
    /\ pc' = after_validate(validate_instance(open_params))
    /\ raised' = IF validate_instance(open_params) THEN raised
                 ELSE [type |-> "ValidationError"]
    /\ UNCHANGED <<callVars, open_params, search_params, items, grouped_items, opened,
                   ds_final, data_id, LOG, cubeVars, mosaicVars, baseIdVars,
                   sen3Vars>>

\* sentinel2.py 129-141: the search, and the error when nothing is found.
\* A call whose parameters failed validation has no crs or bbox to search by.
Search ==
    /\ pc = "search"
    /\ SchemaRequired \subseteq DOMAIN open_params
    /\ \E found \in SearchResults :
        /\ items' = found
        /\ search_params' = SearchParams(data_id, open_params)
        /\ calls' = calls \o <<"reproject_bbox", "catalog.search">>
        /\ IF no_items_found(found)
           THEN /\ raised' = [type |-> "DataStoreError",
                              msg |-> "No items found for search_params",
                              search_params |-> SearchParams(data_id, open_params)]
                /\ pc' = "raised"
           ELSE /\ raised' = raised
                /\ pc' = "group"
    /\ UNCHANGED <<callVars, open_params, grouped_items, opened, ds_final, data_id, LOG,
                   cubeVars, mosaicVars, baseIdVars, sen3Vars>>

\* sentinel2.py 144: group_items also adds the nominal time to the items.
GroupItems ==
    /\ pc = "group"
    /\ items' = group_items(items).items
    /\ grouped_items' = group_items(items).grouped_items
    /\ calls' = Append(calls, "group_items")
    /\ pc' = "generate"
    /\ UNCHANGED <<callVars, open_params, search_params, opened, ds_final, raised, data_id,
                   LOG, cubeVars, mosaicVars, baseIdVars,
                   sen3Vars>>

\* The number of canvases built so far.
n_built == Len(SelectSeq(canvas_log, LAMBDA e : e.op = "create"))

\* sentinel2.py 261-271, 342-352: generate_cube turns to the next zone and
\* _generate_utm_cube starts on it without a canvas.
StartZone ==
    /\ pc = "generate"
    /\ zone_idx < Len(utm_tile_id(grouped_items))
    /\ zone_idx' = zone_idx + 1
    /\ loop_idx' = <<1, 1>>
    /\ final_ds' = None
    /\ calls' = Append(calls, "reproject_bbox")
    /\ pc' = "cells"
    /\ UNCHANGED <<callVars, open_params, search_params, items, grouped_items, opened,
                   ds_final, raised, data_id, LOG, list_ds_utm, target_gm,
                   resampled_list_ds, canvas_log, mosaicVars, baseIdVars,
                   sen3Vars>>

\* sentinel2.py 353-378: one pass of the loops of _generate_utm_cube.
ProcessCell ==
    /\ pc = "cells"
    /\ loop_idx[1] <= Len(grouped_items.time)
    /\ LET zone == utm_tile_id(grouped_items)[zone_idx]
           tiles == zone[2]
           r == generate_utm_cube_cell(grouped_items, tiles, zone[1], open_params,
                                       final_ds, loop_idx[1], loop_idx[2], n_built)
       IN  /\ opened' = opened \o r.opened
           /\ calls' = calls \o [j \in DOMAIN r.opened |-> "xr.open_dataset"]
           /\ canvas_log' = canvas_log \o r.events
           /\ final_ds' = r.final_ds
           /\ IF r.error = "none"
              THEN /\ loop_idx' = IF loop_idx[2] < Len(tiles) THEN <<loop_idx[1], loop_idx[2] + 1>>
                              ELSE <<loop_idx[1] + 1, 1>>
                   /\ UNCHANGED <<pc, raised>>
              ELSE /\ raised' = [type |-> r.error]
                   /\ pc' = "raised"
                   /\ UNCHANGED loop_idx
    /\ UNCHANGED <<callVars, open_params, search_params, items, grouped_items, ds_final,
                   data_id, LOG, zone_idx, list_ds_utm, target_gm,
                   resampled_list_ds, mosaicVars, baseIdVars, sen3Vars>>

\* sentinel2.py 380, 272: _generate_utm_cube returns the canvas (or None) and
\* generate_cube appends it to the list of zones.
EndZone ==
    /\ pc = "cells"
    /\ loop_idx[1] > Len(grouped_items.time)
    /\ list_ds_utm' = Append(list_ds_utm, final_ds)
    /\ pc' = IF zone_idx < Len(utm_tile_id(grouped_items)) THEN "generate"
             ELSE "merge"
    /\ UNCHANGED <<callVars, open_params, search_params, items, grouped_items, opened,
                   ds_final, raised, data_id, calls, LOG, zone_idx, loop_idx,
                   final_ds, target_gm, resampled_list_ds, canvas_log,
                   mosaicVars, baseIdVars, sen3Vars>>

\* sentinel2.py 436-463
SelectTargetGrid ==
    /\ pc = "merge"
    /\ LET r == select_target_gm(list_ds_utm, open_params)
       IN  IF r.error = "none"
           THEN /\ target_gm' = r.target_gm
                /\ pc' = "resample"
                /\ UNCHANGED raised
           ELSE /\ raised' = [type |-> r.error]
                /\ pc' = "raised"
                /\ UNCHANGED target_gm
    /\ UNCHANGED <<callVars, open_params, search_params, items, grouped_items, opened,
                   ds_final, data_id, calls, LOG, zone_idx, loop_idx, final_ds,
                   list_ds_utm, resampled_list_ds, canvas_log, mosaicVars,
                   baseIdVars, sen3Vars>>

\* sentinel2.py 466-467: the next zone is resampled.
ResampleZone ==
    /\ pc = "resample"
    /\ Len(resampled_list_ds) < Len(list_ds_utm)
    /\ LET ds == list_ds_utm[Len(resampled_list_ds) + 1].canvas
           r == _resample_dataset_soft(ds, target_gm, open_params)
       IN  /\ resampled_list_ds' =
                  Append(resampled_list_ds, [ds |-> r.ds, path |-> r.path])
           /\ LOG' = LOG \o r.log
    /\ UNCHANGED <<callVars, pc, open_params, search_params, items, grouped_items, opened,
                   ds_final, raised, data_id, calls, zone_idx, loop_idx, final_ds,
                   list_ds_utm, target_gm, canvas_log, mosaicVars, baseIdVars,
                   sen3Vars>>

\* sentinel2.py 468, 276-278, 147: the zones are mosaicked into the cube.
MosaicZones ==
    /\ pc = "resample"
    /\ Len(resampled_list_ds) = Len(list_ds_utm)
    /\ ds_final' =
          [returned |-> FALSE,
           cube |-> mosaic_spatial_take_first(
                        [i \in DOMAIN resampled_list_ds |->
                            resampled_list_ds[i].ds]).ds]
    /\ pc' = "attrs"
    /\ UNCHANGED <<callVars, open_params, search_params, items, grouped_items, opened,
                   raised, data_id, calls, LOG, cubeVars, mosaicVars, baseIdVars,
                   sen3Vars>>

\* sentinel2.py 150-154
AddAttributes ==
    /\ pc = "attrs"
    /\ ds_final' = [returned |-> TRUE, cube |-> ds_final.cube,
                    attrs |-> add_attributes(grouped_items, open_params)]
    /\ calls' = Append(calls, "add_attributes")
    /\ pc' = "done"
    /\ UNCHANGED <<callVars, open_params, search_params, items, grouped_items, opened,
                   raised, data_id, LOG, cubeVars, mosaicVars, baseIdVars,
                   sen3Vars>>

(***************************************************************************)
(* group_items called on its own, over footprints at every 15-degree band   *)
(* edge of the longitudes -180..180.                                       *)
(***************************************************************************)
\* Footprints whose centre lies just west of, on, and just east of each
\* multiple of 15 degrees.
BandEdgeBoxes ==
    UNION {{<<15 * m - 1, 50, 15 * m, 51>>, <<15 * m - 1, 50, 15 * m + 1, 51>>,
            <<15 * m, 50, 15 * m + 1, 51>>} : m \in -11..11}
    \cup {<<-180, 50, -179, 51>>, <<179, 50, 180, 51>>,
          <<-180, 50, -178, 51>>, <<178, 50, 180, 51>>}
BandEdgeItems ==
    {[datetime |-> t, bbox |-> b, grid_code |-> 1, proj_code |-> "EPSG:32632"] :
        t \in CatalogTimes, b \in BandEdgeBoxes}

\* Bound of the lists group_items is called on directly.
MaxGroupItems == 1
InitGroup ==
    /\ pc = "group"
    /\ data_id = "sentinel-2-l2a"
    /\ open_params = ValidParams
    /\ search_params = "None"
    /\ items \in {WithIds(f) : f \in SeqsOf(BandEdgeItems, 1, MaxGroupItems)}
    /\ grouped_items = NotBuilt
    /\ opened = <<>>
    /\ ds_final = NoDataset
    /\ raised = NoError
    /\ calls = <<>>
    /\ LOG = <<>>
    /\ zone_idx = 0
    /\ loop_idx = <<0, 0>>
    /\ final_ds = None
    /\ list_ds_utm = <<>>
    /\ target_gm = None
    /\ resampled_list_ds = <<>>
    /\ canvas_log = <<>>

(***************************************************************************)
(* generate_cube and add_attributes called on grouped items, over requests *)
(* that clip tiles away, reuse a zone's grid, or resample zones, with and  *)
(* without overrides of the resampling methods and of the tile size.       *)
(***************************************************************************)
\* A dict with one more key.
With(params, key, value) ==
    [k \in DOMAIN params \cup {key} |-> IF k = key THEN value ELSE params[k]]

\* The requested grids tried: the box of ValidParams in its CRS and in the
\* CRS of tiles 1 and 3, the box over tile 1 at 10 m and at 5 m, that box
\* in the CRS of ValidParams, and a box whose edges lie inside pixels.
GridsTried ==
    {ValidParams,
     [ValidParams EXCEPT !.bbox = <<600, 5880, 620, 5900>>],
     [ValidParams EXCEPT !.crs = "EPSG:32633", !.bbox = <<10, 0, 30, 20>>],
     [ValidParams EXCEPT !.crs = "EPSG:32633", !.bbox = <<0, 0, 20, 20>>],
     [ValidParams EXCEPT !.crs = "EPSG:32633", !.bbox = <<0, 0, 20, 20>>,
                         !.spatial_res = 5],
     [ValidParams EXCEPT !.crs = "EPSG:32633", !.bbox = <<7, 3, 27, 16>>]}

\* The overrides tried: spline_orders as a number (2, 0) and as a dict
\* {3: ["scl"]}, agg_methods as the name "mean"; the variables tried: all
\* (no "variables" given), "b02" alone, "scl" alone.
SplineOrdersTried ==
    {[kind |-> "value", value |-> 2], [kind |-> "value", value |-> 0],
     [kind |-> "dict", items |-> <<<<3, {"scl"}>>>>]}
AggMethodsTried == {[kind |-> "value", value |-> "mean"]}
CubeParamsTried ==
    UNION {{g} \cup {With(g, "spline_orders", s) : s \in SplineOrdersTried}
               \cup {With(g, "agg_methods", a) : a \in AggMethodsTried}
               \cup {With(With(g, "spline_orders", s), "agg_methods", a) :
                        s \in {[kind |-> "dict", items |-> <<<<3, {"scl"}>>>>]},
                        a \in AggMethodsTried}
           : g \in GridsTried}
    \cup {With(ValidParams, "tile_size", 512)}
    \cup {With([ValidParams EXCEPT !.bbox = <<600, 5880, 620, 5900>>],
               "variables", v) : v \in {{"b02"}, {"scl"}}}

\* Bound of the lists of items a cube is generated from.
MaxCubeItems == 2
InitCube ==
    /\ pc = "generate"
    /\ data_id = "sentinel-2-l2a"
    /\ open_params \in CubeParamsTried
    /\ search_params = "None"
    /\ \E found \in SeqsOf(CatalogItems, 1, MaxCubeItems) :
          /\ items = group_items(WithIds(found)).items
          /\ grouped_items = group_items(WithIds(found)).grouped_items
    /\ opened = <<>>
    /\ ds_final = NoDataset
    /\ raised = NoError
    /\ calls = <<>>
    /\ LOG = <<>>
    /\ zone_idx = 0
    /\ loop_idx = <<0, 0>>
    /\ final_ds = None
    /\ list_ds_utm = <<>>
    /\ target_gm = None
    /\ resampled_list_ds = <<>>
    /\ canvas_log = <<>>

(***************************************************************************)
(* Sentinel-3 open_data: sentinel3.py group_items and generate_cube, over  *)
(* items of two acquisitions, at the day's last and first hours, east of   *)
(* and on the prime meridian, whose clipped product is a raster or a       *)
(* single row.                                                             *)
(***************************************************************************)
\* sentinel3.py 170-203.  One bucket of items per nominal date, in the
\* order of the deduplicated input; the time coordinate of a bucket is
\* item.datetime of its first item.
sen3_group_items(items_in) ==
    LET filtered == _filter_acquisition_time(items_in)
    IN  IF filtered.error # "none"
        THEN [called |-> TRUE, error |-> filtered.error]
        ELSE
        LET its == add_nominal_datetime(filtered.ret)
            dates == Ascending({date(its[i].datetime_nominal) : i \in DOMAIN its})
            bucket(d) ==
                SelectSeq(its, LAMBDA it : date(it.datetime_nominal) = dates[d])
            \* replace date by datetime from first item
            dts == [d \in DOMAIN dates |-> bucket(d)[1].datetime]
        IN  [called |-> TRUE, error |-> "none", time |-> dts,
             values |-> [d \in DOMAIN dates |-> bucket(d)]]

\* xr.open_dataset(..., engine="eopf-zarr", resolution, crs, bbox, ...), an
\* external collaborator: the product resampled and clipped to the request,
\* of the size the item stands for, every pixel holding the position k of
\* the item in its bucket.
sen3_open_dataset(item, k) ==
    [data_vars |->
        [key \in {"lst"} |->
            [dims |-> <<"y", "x">>,
             coords |-> [sizes |-> item.sizes],
             data |-> [p \in (1..item.sizes[1]) \X (1..item.sizes[2]) |-> k]]],
     attrs |-> item.id]

\* sentinel3.py 114-127 for the time step dt_idx: the mosaic of the
\* products of the bucket that have no dimension of size <= 1.  ValueError
\* when the time step is not the only one with its time coordinate (.item()
\* of an array of several elements).
sen3_time_step(g, dt_idx) ==
    IF Cardinality({e \in DOMAIN g.time : g.time[e] = g.time[dt_idx]}) > 1
    THEN [called |-> TRUE, error |-> "ValueError"]
    ELSE LET its == g.values[dt_idx]
             dss == [k \in DOMAIN its |-> sen3_open_dataset(its[k], k)]
             dss_spatial ==
                 SelectSeq(dss, LAMBDA ds :
                     \A size \in Range(coords(ds).sizes) : ~(size <= 1))
         IN  mosaic_spatial_take_first(dss_spatial)

\* sentinel3.py 113-130: the time steps in order, up to the first that
\* raises; ValueError from xr.concat when there is no time step at all.
sen3_generate_cube(g) ==
    LET failing == {d \in DOMAIN g.time : sen3_time_step(g, d).error # "none"}
    IN  IF failing # {}
        THEN [called |-> TRUE, error |-> sen3_time_step(g, Min(failing)).error,
              dt_idx |-> Min(failing)]
        ELSE IF Len(g.time) = 0 THEN [called |-> TRUE, error |-> "ValueError"]
        ELSE [called |-> TRUE, error |-> "none", time |-> g.time,
              dss_time |-> [d \in DOMAIN g.time |-> sen3_time_step(g, d).ds]]

\* The items of the catalog: two acquisitions (final products), each at
\* 23:00 of day 0 or 00:00 of day 1, over a footprint centred at 16 or at 0
\* degrees east, clipped to a 2 x 2 raster or to a single row.
Sen3CatalogItems ==
    {[id |-> S3Id(sens, "T1", 3, "NT", TRUE), datetime |-> t, bbox |-> b,
      sizes |-> s] :
        sens \in {"T1", "T2"}, t \in {23, 24},
        b \in {<<15, 50, 17, 51>>, <<-1, 50, 1, 51>>},
        s \in {<<2, 2>>, <<1, 2>>}}

\* Bound of the lists the Sentinel-3 grouper is called on.
MaxSen3GroupItems == 2
InitSen3Group ==
    /\ s3_items \in SeqsOf(Sen3CatalogItems, 1, MaxSen3GroupItems)
    /\ s3_result = NotCalled /\ s3_log = <<>>
    /\ s3_grouped_items = NotCalled /\ s3_ds_final = NotCalled

\* sentinel3.py 91
Sen3GroupItems ==
    /\ ~s3_grouped_items.called
    /\ s3_grouped_items' = sen3_group_items(s3_items)
    /\ UNCHANGED <<callVars, s3_items, s3_result, s3_log, s3_ds_final, mosaicVars,
                   baseIdVars, sen2Vars>>

\* sentinel3.py 94
Sen3GenerateCube ==
    /\ s3_grouped_items.called /\ s3_grouped_items.error = "none"
    /\ ~s3_ds_final.called
    /\ s3_ds_final' = sen3_generate_cube(s3_grouped_items)
    /\ UNCHANGED <<callVars, s3_items, s3_result, s3_log, s3_grouped_items, mosaicVars,
                   baseIdVars, sen2Vars>>

(***************************************************************************)
(* _insert_tile_data called on its own: tiles written one after the other   *)
(* into one time slice of a canvas of 2 x 4 pixels, among them tiles that   *)
(* overlap, tiles with pixels without data, and tiles whose coordinates    *)
(* are not on the canvas.                                                  *)
(***************************************************************************)
\* A tile dataset of one variable with the coordinates x and y given; pixel
\* values name the tile and the pixel, the columns nan_cols hold no data.
TileDataset(id, x, y, nan_cols) ==
    [data_vars |->
        [key \in {"b02"} |->
            [dims |-> <<"y", "x">>,
             coords |-> [x |-> x, y |-> y, spatial_ref |-> "EPSG:32633"],
             data |-> [p \in (1..Len(y)) \X (1..Len(x)) |->
                         IF p[2] \in nan_cols THEN NaN
                         ELSE id * 10000 + y[p[1]] * 100 + x[p[2]]]]],
     attrs |-> id]

\* The tiles tried.  On the canvas: the left half, the middle with a first
\* column without data, the whole, the middle without any data, one row of
\* the middle.  Off the canvas: a first x, a last x, a first y that the
\* canvas does not hold; x coordinates between the first and the last that
\* the canvas does not hold, as many as the canvas has there and fewer; x
\* coordinates of the canvas that are not neighbours; x in falling order.
TilesTried ==
    {TileDataset(1, <<5, 15>>, <<15, 5>>, {}),
     TileDataset(2, <<15, 25>>, <<15, 5>>, {1}),
     TileDataset(3, <<5, 15, 25, 35>>, <<15, 5>>, {}),
     TileDataset(4, <<15, 25>>, <<15, 5>>, {1, 2}),
     TileDataset(5, <<15, 25>>, <<5>>, {}),
     TileDataset(6, <<0, 10>>, <<15, 5>>, {}),
     TileDataset(7, <<25, 45>>, <<15, 5>>, {}),
     TileDataset(8, <<15, 25>>, <<12, 5>>, {}),
     TileDataset(9, <<5, 12, 25>>, <<15, 5>>, {}),
     TileDataset(10, <<5, 20, 35>>, <<15, 5>>, {}),
     TileDataset(11, <<5, 25>>, <<15, 5>>, {}),
     TileDataset(12, <<25, 15>>, <<15, 5>>, {})}

\* The canvas: two time steps over the box (0, 0, 40, 20) at 10 m.
CanvasTried ==
    _create_empty_dataset(TileDataset(1, <<5, 15>>, <<15, 5>>, {}),
                          [time |-> <<24, 48>>],
                          <<0, 0, 40, 20>>, <<0, 0, 40, 20>>, 10)

\* Bound of the number of tiles written one after the other.
MaxInsertions == 2
InitInsert ==
    /\ fn_args \in {[fn |-> "_insert_tile_data", final_ds |-> CanvasTried,
                     tiles |-> tiles, dt_idx |-> dt_idx] :
                        tiles \in SeqsOf(TilesTried, 1, MaxInsertions),
                        dt_idx \in {1, 2}}
    /\ fn_ret = NotCalled

\* sentinel2.py 378: the next tile is written into the canvas the call
\* before returned; a call that raises leaves the canvas as it was.
InsertTileData ==
    /\ fn_args.fn = "_insert_tile_data"
    /\ LET n == IF fn_ret.called THEN fn_ret.n ELSE 0
           canvas == IF fn_ret.called THEN fn_ret.final_ds ELSE fn_args.final_ds
       IN  /\ n < Len(fn_args.tiles)
           /\ fn_ret.called => fn_ret.error = "none"
           /\ LET r == _insert_tile_data(canvas, fn_args.tiles[n + 1],
                                         fn_args.dt_idx)
              IN  fn_ret' = [called |-> TRUE, n |-> n + 1, error |-> r.error,
                             before |-> canvas,
                             final_ds |-> IF r.error = "none" THEN r.ds
                                          ELSE canvas]
    /\ UNCHANGED <<fn_args, mosaicVars, baseIdVars, sen3Vars, sen2Vars>>

(***************************************************************************)
(* _get_var_spline_order and _get_var_agg_method called on their own, over *)
(* no override, a single method, and mappings from methods to lists of     *)
(* variable names and dtypes.                                              *)
(***************************************************************************)
\* The lists of a mapping: names and dtypes of variables.
VarListsTried ==
    {{}, {"scl"}, {"b02"}, {"uint8"}, {"float32"}, {"b02", "scl"}}

\* Bound of the number of entries of a mapping override.
MaxEntries == 2

\* The mappings over the methods given: sequences of entries <<method,
\* list>> in the order of the mapping, no method twice.
MappingsOf(methods) ==
    {[kind |-> "dict", items |-> its] :
        its \in {q \in SeqsOf(methods \X VarListsTried, 0, MaxEntries) :
                    \A i, j \in DOMAIN q : i # j => q[i][1] # q[j][1]}}

\* The overrides over the methods given: none, each method, each mapping.
OverridesOf(methods) ==
    {NoOverride} \cup {[kind |-> "value", value |-> m] : m \in methods}
    \cup MappingsOf(methods)

\* The variables the methods are resolved for.
VarNamesTried == {"b02", "b03", "scl"}

InitPolicy ==
    /\ \/ fn_args \in {[fn |-> "_get_var_spline_order", override |-> o,
                        key |-> key] :
                           o \in OverridesOf({0, 2, 3}), key \in VarNamesTried}
       \/ fn_args \in {[fn |-> "_get_var_agg_method", override |-> o,
                        key |-> key] :
                           o \in OverridesOf({"center", "max", "mean"}),
                           key \in VarNamesTried}
    /\ fn_ret = NotCalled

\* One call of _get_var_spline_order(spline_orders, key, var).
GetVarSplineOrder ==
    /\ fn_args.fn = "_get_var_spline_order"
    /\ ~fn_ret.called
    /\ LET r == _get_var_spline_order(fn_args.override, fn_args.key)
       IN  fn_ret' = [called |-> TRUE, value |-> r.value, log |-> r.log]
    /\ UNCHANGED <<fn_args, mosaicVars, baseIdVars, sen3Vars, sen2Vars>>

\* One call of _get_var_agg_method(agg_methods, key, var).
GetVarAggMethod ==
    /\ fn_args.fn = "_get_var_agg_method"
    /\ ~fn_ret.called
    /\ LET r == _get_var_agg_method(fn_args.override, fn_args.key)
       IN  fn_ret' = [called |-> TRUE, value |-> r.value, log |-> r.log]
    /\ UNCHANGED <<fn_args, mosaicVars, baseIdVars, sen3Vars, sen2Vars>>

(***************************************************************************)
(* _get_spatial_res called on its own, over requests in metres for a       *)
(* projected CRS and in millionths of a degree for a geographic one.       *)
(***************************************************************************)
\* Bound of the requested resolution for a projected CRS, in metres.
MaxMetres == 70

\* Bound of the requested resolution for a geographic CRS, in millionths of
\* a degree (60 m are about 539 of them).
MaxMicroDegrees == 600

InitSpatialRes ==
    /\ fn_args \in
          {[fn |-> "_get_spatial_res",
            open_params |-> [crs |-> "EPSG:32633", spatial_res |-> r]] :
               r \in 1..MaxMetres}
          \cup
          {[fn |-> "_get_spatial_res",
            open_params |-> [crs |-> "EPSG:4326", spatial_res |-> r]] :
               r \in 1..MaxMicroDegrees}
    /\ fn_ret = NotCalled

\* One call of _get_spatial_res(open_params).
GetSpatialRes ==
    /\ fn_args.fn = "_get_spatial_res"
    /\ ~fn_ret.called
    /\ fn_ret' = [called |-> TRUE, value |-> _get_spatial_res(fn_args.open_params)]
    /\ UNCHANGED <<fn_args, mosaicVars, baseIdVars, sen3Vars, sen2Vars>>

(***************************************************************************)
(* The two item groupers called on their own, over every non-empty list of *)
(* up to MaxIndexItems items of the catalog (Sentinel-2) and up to         *)
(* MaxSen3GroupItems items (Sentinel-3).                                   *)
(***************************************************************************)
\* Bound of the lists the tiled grouper is called on.
MaxIndexItems == 3
InitIndex ==
    \/ /\ pc = "group"
       /\ data_id = "sentinel-2-l2a"
       /\ open_params = ValidParams
       /\ search_params = "None"
       /\ items \in {WithIds(f) : f \in SeqsOf(CatalogItems, 1, MaxIndexItems)}
       /\ grouped_items = NotBuilt
       /\ opened = <<>>
       /\ ds_final = NoDataset
       /\ raised = NoError
       /\ calls = <<>>
       /\ LOG = <<>>
       /\ zone_idx = 0
       /\ loop_idx = <<0, 0>>
       /\ final_ds = None
       /\ list_ds_utm = <<>>
       /\ target_gm = None
       /\ resampled_list_ds = <<>>
       /\ canvas_log = <<>>
       /\ IdleSen3
    \/ /\ InitSen3Group
       /\ IdleSen2

(***************************************************************************)
(* Specifications                                                          *)
(***************************************************************************)
Init == InitSen2 /\ IdleMosaic /\ IdleBaseId /\ IdleSen3 /\ IdleCalls
Next ==
    \/ Validate \/ Search \/ GroupItems
    \/ StartZone \/ ProcessCell \/ EndZone
    \/ SelectTargetGrid \/ ResampleZone \/ MosaicZones
    \/ AddAttributes
Spec == Init /\ [][Next]_vars

InitG == InitGroup /\ IdleMosaic /\ IdleBaseId /\ IdleSen3 /\ IdleCalls
NextG == GroupItems
SpecGroup == InitG /\ [][NextG]_vars

InitC == InitCube /\ IdleMosaic /\ IdleBaseId /\ IdleSen3 /\ IdleCalls
NextC ==
    \/ StartZone \/ ProcessCell \/ EndZone
    \/ SelectTargetGrid \/ ResampleZone \/ MosaicZones
    \/ AddAttributes
SpecCube == InitC /\ [][NextC]_vars

InitM == InitMosaic /\ IdleBaseId /\ IdleSen3 /\ IdleSen2 /\ IdleCalls
NextM == Mosaic
SpecMosaic == InitM /\ [][NextM]_vars

InitB == InitBaseId /\ IdleMosaic /\ IdleSen3 /\ IdleSen2 /\ IdleCalls
NextB == GetBaseId
SpecBaseId == InitB /\ [][NextB]_vars

InitS3G == InitSen3Group /\ IdleMosaic /\ IdleBaseId /\ IdleSen2 /\ IdleCalls
NextS3G == Sen3GroupItems \/ Sen3GenerateCube
SpecSen3Group == InitS3G /\ [][NextS3G]_vars

InitS3 == InitSen3 /\ IdleMosaic /\ IdleBaseId /\ IdleSen2 /\ IdleCalls
NextS3 == FilterAcquisitionTime
SpecSen3 == InitS3 /\ [][NextS3]_vars

InitI == InitInsert /\ IdleMosaic /\ IdleBaseId /\ IdleSen3 /\ IdleSen2
NextI == InsertTileData
SpecInsert == InitI /\ [][NextI]_vars

InitP == InitPolicy /\ IdleMosaic /\ IdleBaseId /\ IdleSen3 /\ IdleSen2
NextP == GetVarSplineOrder \/ GetVarAggMethod
SpecPolicy == InitP /\ [][NextP]_vars

InitR == InitSpatialRes /\ IdleMosaic /\ IdleBaseId /\ IdleSen3 /\ IdleSen2
NextR == GetSpatialRes
SpecSpatialRes == InitR /\ [][NextR]_vars

InitX == InitIndex /\ IdleMosaic /\ IdleBaseId /\ IdleCalls
NextX == GroupItems \/ Sen3GroupItems
SpecIndex == InitX /\ [][NextX]_vars

(***************************************************************************)
(* Properties of the tile mosaicker (SpecMosaic)                           *)
(***************************************************************************)
\* The names of the raster variables of a dataset: last dims are (y, x).
SpatialKeys(ds) ==
    {key \in DOMAIN ds.data_vars : LastTwo(ds.data_vars[key].dims) = <<"y", "x">>}
PixelOf(ds, key, p) == ds.data_vars[key].data[p]

\* C1: for every list of one or more same-shape datasets, every raster
\* variable and every pixel, the mosaic holds the value of the first dataset
\* in input order that is not NaN there, and NaN if all are NaN there; so of
\* two datasets both valid at a pixel, the first one wins.
C1_TakeFirst ==
    (ds_mosaic.called /\ Len(list_ds) >= 1) =>
        /\ ds_mosaic.error = "none"
        /\ \A key \in SpatialKeys(list_ds[1]) :
            /\ key \in DOMAIN ds_mosaic.ds.data_vars
            /\ \A p \in Pixels :
                LET v == PixelOf(ds_mosaic.ds, key, p)
                    valid(i) == PixelOf(list_ds[i], key, p) # NaN
                IN  /\ \/ \E i \in DOMAIN list_ds :
                            /\ valid(i)
                            /\ \A j \in 1..(i - 1) : ~valid(j)
                            /\ v = PixelOf(list_ds[i], key, p)
                       \/ /\ \A i \in DOMAIN list_ds : ~valid(i)
                          /\ v = NaN
                    /\ (Len(list_ds) = 2 /\ valid(1) /\ valid(2))
                           => v = PixelOf(list_ds[1], key, p)

\* C1 witness: three datasets; at pixel 1 only the third is valid and it is
\* taken; at pixel 2 the first two are valid with different values and the
\* first is taken.
C1_Witness ==
    /\ ds_mosaic.called
    /\ Len(list_ds) = 3
    /\ PixelOf(list_ds[1], "b02", 1) = NaN
    /\ PixelOf(list_ds[2], "b02", 1) = NaN
    /\ PixelOf(list_ds[3], "b02", 1) = 2
    /\ PixelOf(ds_mosaic.ds, "b02", 1) = 2
    /\ PixelOf(list_ds[1], "b02", 2) = 1
    /\ PixelOf(list_ds[2], "b02", 2) = 2
    /\ PixelOf(ds_mosaic.ds, "b02", 2) = 1

\* C2: mosaicking a single dataset returns that dataset unchanged (every
\* variable, its attributes), and mosaicking [A, B] returns exactly the values
\* of A in every raster variable whenever A has no NaN pixel.
C2_Idempotent ==
    ds_mosaic.called =>
        /\ Len(list_ds) = 1 => (ds_mosaic.error = "none" /\ ds_mosaic.ds = list_ds[1])
        /\ (/\ Len(list_ds) = 2
            /\ \A key \in SpatialKeys(list_ds[1]) : \A p \in Pixels :
                   PixelOf(list_ds[1], key, p) # NaN)
           => /\ ds_mosaic.error = "none"
              /\ \A key \in SpatialKeys(list_ds[1]) :
                    ds_mosaic.ds.data_vars[key].data = list_ds[1].data_vars[key].data

\* C2 witness: [A, B] with A free of NaN and B valid and different at a pixel;
\* the mosaic has A's values.
C2_Witness ==
    /\ ds_mosaic.called
    /\ Len(list_ds) = 2
    /\ \A p \in Pixels : PixelOf(list_ds[1], "b02", p) = 1
    /\ PixelOf(list_ds[2], "b02", 1) = 2
    /\ \A p \in Pixels : PixelOf(ds_mosaic.ds, "b02", p) = 1

(***************************************************************************)
(* Properties of _get_base_id (SpecBaseId)                                 *)
(***************************************************************************)
\* The positions of the timestamps of an identifier, and the last of them.
TimestampPositions(id) == {i \in DOMAIN id : IsTimestamp(id[i])}
FinalTimestampPosition(id) ==
    CHOOSE i \in TimestampPositions(id) : \A j \in TimestampPositions(id) : j <= i
WarnedAbout(log, id) ==
    /\ Len(log) = 1
    /\ log[1].msg = "does not contain 3 timestamp"
    /\ log[1].item_id = id

\* C4 as stated: an identifier that does not contain exactly three timestamps
\* is warned about and returned unchanged; one with exactly three is returned
\* truncated before the final timestamp (with or without the underscore in
\* front of it) and nothing is logged.
C4_ExactlyThree ==
    base_id.called =>
        IF Cardinality(TimestampPositions(item_id)) # 3
        THEN WarnedAbout(base_id.log, item_id) /\ base_id.ret = item_id
        ELSE LET pos == FinalTimestampPosition(item_id)
             IN  /\ base_id.log = <<>>
                 /\ \/ base_id.ret = SubSeq(item_id, 1, pos - 1)
                    \/ /\ pos >= 2
                       /\ item_id[pos - 1] = "_"
                       /\ base_id.ret = SubSeq(item_id, 1, pos - 2)

\* C4 amended: an identifier with fewer than three timestamps is warned about
\* and returned unchanged; one with three or more is not warned about and is
\* returned truncated before the underscore in front of its final timestamp;
\* when no underscore precedes the final timestamp the result is the text
\* before the last "_" followed by the same timestamp text, and the empty
\* text when there is none.
C4_FewerThanThree ==
    base_id.called =>
        IF Cardinality(TimestampPositions(item_id)) < 3
        THEN WarnedAbout(base_id.log, item_id) /\ base_id.ret = item_id
        ELSE LET pos == FinalTimestampPosition(item_id)
                 same == {i \in 1..(Len(item_id) - 1) :
                             item_id[i] = "_" /\ item_id[i + 1] = item_id[pos]}
             IN  /\ base_id.log = <<>>
                 /\ IF pos >= 2 /\ item_id[pos - 1] = "_"
                    THEN base_id.ret = SubSeq(item_id, 1, pos - 2)
                    ELSE IF same = {} THEN base_id.ret = <<>>
                    ELSE \E i \in same :
                            /\ \A j \in same : j <= i
                            /\ base_id.ret = SubSeq(item_id, 1, i - 1)

\* C4 witness: an identifier with four timestamps is not warned about and
\* loses its final timestamp and the underscore in front of it.
C4_Witness ==
    /\ base_id.called
    /\ item_id = <<"T1", "_", "T1", "_", "T2", "_", "T2">>
    /\ base_id.log = <<>>
    /\ base_id.ret = <<"T1", "_", "T1", "_", "T2">>

(***************************************************************************)
(* Properties of the acquisition deduplicator (SpecSen3)                   *)
(***************************************************************************)
\* The base acquisition key of input item i, the positions of the input that
\* share the key of item i, and the positions that were kept.
BaseKey(i) == _get_base_id(s3_items[i].id).ret
GroupOf(i) == {j \in DOMAIN s3_items : BaseKey(j) = BaseKey(i)}
Kept == Range(s3_result.ret_idx)
\* Position k is tagged and no item of the set S with that tag has a later
\* processing timestamp.
LatestTagged(k, S, tag) ==
    /\ k \in S
    /\ HasTag(s3_items[k].id, tag)
    /\ \A j \in S : HasTag(s3_items[j].id, tag)
           => LastTsRank(s3_items[j].id) <= LastTsRank(s3_items[k].id)

\* C3: whenever _filter_acquisition_time returns, it returns at most one item
\* per base acquisition key: the "_NT_" item with the latest processing
\* timestamp if the key's group has an "_NT_" item, else the "_NR_" item with
\* the latest processing timestamp, and no item for a group with neither.
C3_OnePerAcquisition ==
    (s3_result.called /\ s3_result.error = "none") =>
        /\ Kept \subseteq DOMAIN s3_items
        /\ Cardinality(Kept) = Len(s3_result.ret_idx)
        /\ \A k \in DOMAIN s3_result.ret : s3_result.ret[k] = s3_items[s3_result.ret_idx[k]]
        /\ \A i \in DOMAIN s3_items :
            LET G == GroupOf(i)
                K == Kept \cap G
                anyNT == \E j \in G : HasTag(s3_items[j].id, "NT")
                anyNR == \E j \in G : HasTag(s3_items[j].id, "NR")
            IN  /\ Cardinality(K) <= 1
                /\ anyNT => \E k \in K : LatestTagged(k, G, "NT")
                /\ (~anyNT /\ anyNR) => \E k \in K : LatestTagged(k, G, "NR")
                /\ (~anyNT /\ ~anyNR) => K = {}

\* C3 witness: one acquisition with a near-real-time item and two reprocessed
\* items; the reprocessed item with the later processing timestamp is the
\* only item returned.
C3_Witness ==
    /\ s3_result.called
    /\ s3_result.error = "none"
    /\ Len(s3_items) = 3
    /\ s3_items[1].id = S3Id("T1", "T2", 3, "NR", TRUE)
    /\ s3_items[2].id = S3Id("T1", "T1", 3, "NT", TRUE)
    /\ s3_items[3].id = S3Id("T1", "T2", 3, "NT", TRUE)
    /\ s3_result.ret_idx = <<3>>

\* An identifier that lacks the three embedded timestamps.
Malformed(id) == Cardinality(TimestampPositions(id)) < 3

\* C5: the deduplicator is fail-open for malformed identifiers: the call does
\* not raise, and every input item whose identifier lacks the expected
\* timestamps appears in the output, whatever tag it carries or lacks.
C5_FailOpen ==
    s3_result.called =>
        /\ s3_result.error = "none"
        /\ \A i \in DOMAIN s3_items :
              Malformed(s3_items[i].id)
                  => \E k \in DOMAIN s3_result.ret : s3_result.ret[k].id = s3_items[i].id

(***************************************************************************)
(* Properties of the tiled grouper (Spec, SpecGroup)                       *)
(***************************************************************************)
\* The positions (time, tile_id) of the group index.
Cells == (DOMAIN grouped_items.time) \X (DOMAIN grouped_items.tile_id)
\* The ids of the items of one cell, in cell order.
CellIds(c) == [j \in DOMAIN grouped_items.values[c] |-> grouped_items.values[c][j].id]
\* How often the item with identifier id occurs in cell c.
Occurrences(c, id) == Cardinality({j \in DOMAIN CellIds(c) : CellIds(c)[j] = id})
\* Cell c is the cell of item it: same nominal date, same tile identifier.
IsCellOf(c, it) ==
    /\ date(grouped_items.time[c[1]]) = date(it.datetime_nominal)
    /\ grouped_items.tile_id[c[2]] = it.grid_code

\* C6: after group_items on a non-empty list, each item is in exactly the
\* cell keyed by (date of its nominal timestamp, its tile identifier), once,
\* and in no other cell, and the cells hold nothing but the input items: the
\* cells together are the input multiset.
C6_GroupIsPartition ==
    (grouped_items.built /\ Len(items) >= 1) =>
        /\ \A i \in DOMAIN items :
            /\ \E c \in Cells : IsCellOf(c, items[i])
            /\ \A c \in Cells :
                  Occurrences(c, items[i].id) = IF IsCellOf(c, items[i]) THEN 1 ELSE 0
        /\ \A c \in Cells : \A j \in DOMAIN grouped_items.values[c] :
              \E i \in DOMAIN items : grouped_items.values[c][j] = items[i]

\* C6 witness: three items over two dates and two tiles, two of them in one
\* cell.
C6_Witness ==
    /\ grouped_items.built
    /\ Len(items) = 3
    /\ Len(grouped_items.time) = 2
    /\ Len(grouped_items.tile_id) = 2
    /\ \E c \in Cells : Len(grouped_items.values[c]) = 2

\* The ids of the input items that fall into cell c, in input order.
InputIdsOf(c) ==
    LET hit == SelectSeq(items, LAMBDA it : IsCellOf(c, it))
    IN  [j \in DOMAIN hit |-> hit[j].id]

\* C7 as stated: after the tiled grouper every (date, tile) cell holds at
\* most 2 items; when more than 2 fall into one cell a warning is logged and
\* only the first 2, in input order, are kept.
C7_AtMostTwoPerCell ==
    grouped_items.built =>
        \A c \in Cells :
            /\ Len(grouped_items.values[c]) <= 2
            /\ IF Len(InputIdsOf(c)) > 2
               THEN /\ CellIds(c) = SubSeq(InputIdsOf(c), 1, 2)
                    /\ \E k \in DOMAIN LOG : LOG[k].level = "WARNING"
               ELSE CellIds(c) = InputIdsOf(c)

\* C7 amended: the tiled grouper has no cap: every (date, tile) cell holds
\* all the input items that fall into it, in input order, also when they are
\* more than 2, and group_items logs no warning.
C7_NoCap ==
    grouped_items.built =>
        /\ \A c \in Cells : CellIds(c) = InputIdsOf(c)
        /\ LOG = <<>>

\* C7 witness: three items of one date and tile, all three in the cell.
C7_Witness ==
    /\ grouped_items.built
    /\ \E c \in Cells : CellIds(c) = <<1, 2, 3>>
    /\ LOG = <<>>

\* The solar offset of an item in hours, and its centre longitude in half
\* degrees.
OffsetOf(it) == it.datetime_nominal - it.datetime
Centre2(it) == it.bbox[1] + it.bbox[3]

\* C8 as stated: the nominal timestamp is UTC + floor(L / 15) hours for every
\* longitude L of the bounding-box centre, western ones included.
C8_FloorOffset ==
    grouped_items.built =>
        \A i \in DOMAIN items :
            LET q == OffsetOf(items[i])
            IN  30 * q <= Centre2(items[i]) /\ Centre2(items[i]) < 30 * (q + 1)

\* C8 amended: the nominal timestamp is UTC + int(L / 15) hours, the quotient
\* rounded toward zero: floor(L / 15) for L >= 0 and ceil(L / 15) for L < 0;
\* the item is grouped under the calendar date of that nominal timestamp.
C8_TruncatedOffset ==
    grouped_items.built =>
        \A i \in DOMAIN items :
            LET q == OffsetOf(items[i])
                L2 == Centre2(items[i])
            IN  /\ L2 >= 0 => (30 * q <= L2 /\ L2 < 30 * (q + 1))
                /\ L2 < 0 => (30 * (q - 1) < L2 /\ L2 <= 30 * q)
                /\ \E c \in Cells :
                      /\ date(grouped_items.time[c[1]]) = date(items[i].datetime + q)
                      /\ Occurrences(c, items[i].id) = 1

\* C8 witness: a footprint centred at 0.5 degrees west, acquired at midnight:
\* the offset is 0 hours, not -1, and the item stays on the UTC date.
C8_Witness ==
    /\ grouped_items.built
    /\ \E i \in DOMAIN items :
          /\ Centre2(items[i]) = -1
          /\ items[i].datetime = 24
          /\ items[i].datetime_nominal = 24
          /\ date(grouped_items.time[1]) = 1

(***************************************************************************)
(* Properties of Sen2ProductHandler.open_data (Spec)                       *)
(***************************************************************************)
Called(name) == \E k \in DOMAIN calls : calls[k] = name
\* Every call of a comes before every call of b, and b is not called
\* without a.
Before(a, b) ==
    /\ \A i, j \in DOMAIN calls : (calls[i] = a /\ calls[j] = b) => i < j
    /\ Called(b) => Called(a)

\* C9: when the catalog search returns zero items, open_data raises a
\* DataStoreError that carries the exact search parameters (collections,
\* datetime, bbox, query); nothing is grouped, no tile is opened and no cube
\* is returned.
C9_NoDataFound ==
    (Called("catalog.search") /\ Len(items) = 0) =>
        /\ pc = "raised"
        /\ raised.type = "DataStoreError"
        /\ raised.search_params = search_params
        /\ raised.search_params.collections = <<data_id>>
        /\ raised.search_params.datetime = open_params["time_range"]
        /\ raised.search_params.bbox.bbox = open_params["bbox"]
        /\ raised.search_params.bbox.source_crs = open_params["crs"]
        /\ raised.search_params.bbox.target_crs = "EPSG:4326"
        /\ raised.search_params.query =
              (IF "query" \in DOMAIN open_params THEN open_params["query"] ELSE "None")
        /\ ~Called("group_items")
        /\ ~grouped_items.built
        /\ opened = <<>>
        /\ ~Called("xr.open_dataset")
        /\ ~ds_final.returned

\* C9 witness: a search with a query that found nothing has raised.
C9_Witness ==
    /\ pc = "raised"
    /\ raised.type = "DataStoreError"
    /\ "query" \in DOMAIN open_params
    /\ raised.search_params.query = "cloud_cover_lt_50"
    /\ items = <<>>

\* C10: validation comes before the catalog search, the search before the
\* grouping, the grouping before any tile is opened; and if validation fails
\* the call ends there: no search is issued and no tile is opened.
C10_FailFast ==
    /\ Before("validate_instance", "catalog.search")
    /\ Before("catalog.search", "group_items")
    /\ Before("group_items", "xr.open_dataset")
    /\ Len(opened) = Cardinality({k \in DOMAIN calls : calls[k] = "xr.open_dataset"})
    /\ raised.type = "ValidationError" =>
          /\ pc = "raised"
          /\ ~Called("catalog.search")
          /\ ~Called("xr.open_dataset")
          /\ opened = <<>>

\* C10 witness: a call that ran to its end and opened three tiles.
C10_Witness ==
    /\ pc = "done"
    /\ Len(opened) = 3
    /\ calls = <<"validate_instance", "reproject_bbox", "catalog.search",
                 "group_items", "reproject_bbox", "xr.open_dataset",
                 "xr.open_dataset", "xr.open_dataset", "add_attributes">>

(***************************************************************************)
(* Properties of cube generation (SpecCube)                                *)
(***************************************************************************)
\* The zones whose tiles were all skipped: their canvas is None.
SkippedZones == {i \in DOMAIN list_ds_utm : IsNone(list_ds_utm[i])}

\* C11 as stated: a tile clipped to empty is skipped and cube generation
\* never raises because of it, also when every tile of a zone is skipped.
C11_SkipNeverRaises == SkippedZones # {} => raised = NoError

(***************************************************************************)
(* Properties of the attributes of the cube (Spec)                         *)
(***************************************************************************)
\* The ids of the input items whose nominal date is that of time step d.
IdsOfStep(d) ==
    {items[i].id : i \in {i \in DOMAIN items :
        date(items[i].datetime_nominal) = date(grouped_items.time[d])}}

\* A list of item ids is in tile order, then in the order of the input.
TileThenInputOrder(ids) ==
    \A i, j \in DOMAIN ids : i < j =>
        \/ items[ids[i]].grid_code < items[ids[j]].grid_code
        \/ /\ items[ids[i]].grid_code = items[ids[j]].grid_code
           /\ ids[i] < ids[j]

\* C15: the returned cube carries stac_url, open_params (the parameters
\* passed in), xcube_eopf_version and stac_items; stac_items has one key per
\* time step of the group index, the ISO form of its timestamp, all keys
\* distinct, and under it the ids of all items of that step, each once, in
\* tile order and, within a tile, in input order.
C15_StacItems ==
    pc = "done" =>
        LET attrs == ds_final.attrs
            steps == DOMAIN grouped_items.time
        IN  /\ DOMAIN attrs = {"stac_url", "stac_items", "open_params",
                               "xcube_eopf_version"}
            /\ attrs.open_params = open_params
            /\ DOMAIN attrs.stac_items = {isoformat(grouped_items.time[d]) : d \in steps}
            /\ Cardinality(DOMAIN attrs.stac_items) = Len(grouped_items.time)
            /\ \A d \in steps :
                  LET ids == attrs.stac_items[isoformat(grouped_items.time[d])]
                  IN  /\ Range(ids) = IdsOfStep(d)
                      /\ Len(ids) = Cardinality(IdsOfStep(d))
                      /\ TileThenInputOrder(ids)

\* C15 witness: a cube of two time steps, one of them with the items of two
\* tiles listed against their input order.
C15_Witness ==
    /\ pc = "done"
    /\ Len(grouped_items.time) = 2
    /\ \E k \in DOMAIN ds_final.attrs.stac_items :
          LET ids == ds_final.attrs.stac_items[k]
          IN  Len(ids) = 2 /\ ids[1] > ids[2]

(***************************************************************************)
(* Properties of the canvas of a zone (SpecCube)                           *)
(***************************************************************************)
\* The last event of the history, and the one before it.
LastEvent == canvas_log[Len(canvas_log)]
EventBefore == canvas_log[Len(canvas_log) - 1]

\* The canvas at hand has just been built and has had its first insertion.
FirstInsertionDone ==
    /\ Len(canvas_log) >= 2
    /\ ~IsNone(final_ds)
    /\ LastEvent.op = "insert" /\ EventBefore.op = "create"
    /\ LastEvent.serial = final_ds.serial /\ EventBefore.serial = final_ds.serial

\* The tiles of cell (dt_idx, tile) of zone z, opened and clipped to the
\* requested box, the empty ones left out.
ClippedOf(z, dt_idx, tile) ==
    LET zone == utm_tile_id(grouped_items)[z]
        final_bbox == Coordinates(reproject_bbox(open_params["bbox"],
                                                 open_params["crs"], zone[1]))
        its == grouped_items.values[<<dt_idx, tile>>]
        clipped == [j \in DOMAIN its |->
                      sel(xr_open_dataset(its[j], _get_spatial_res(open_params),
                                          VariablesOf(open_params)),
                          final_bbox[1], final_bbox[3], final_bbox[4], final_bbox[2])]
    IN  SelectSeq(clipped, LAMBDA ds : ~clipped_to_empty(ds))

\* The mosaicked tile of the cell an event of the zone at hand is about.
TileOf(event) ==
    mosaic_spatial_take_first(
        ClippedOf(zone_idx, event.at.dt_idx, event.at.tile)).ds

\* The value a dataset holds at the coordinates (y, x).
ValueAt(var, y, x) == var.data[<<get_loc(var.coords.y, y), get_loc(var.coords.x, x)>>]

\* C12: after the first insertion into a freshly built canvas, at time
\* index t, the canvas holds, for every variable, the tile's value at every
\* coordinate of the tile at time t, the whole tile lies on the canvas, and
\* every other position of the canvas, at time t or at another time, is NaN.
C12_RoundTrip ==
    FirstInsertionDone =>
        LET tile == TileOf(LastEvent)
            canvas == final_ds.canvas
            t == LastEvent.at.dt_idx
        IN  /\ DOMAIN canvas.data_vars = DOMAIN tile.data_vars
            /\ Range(coords(tile).y) \subseteq Range(coords(canvas).y)
            /\ Range(coords(tile).x) \subseteq Range(coords(canvas).x)
            /\ \A key \in DOMAIN canvas.data_vars :
                  LET var == canvas.data_vars[key]
                  IN  \A p \in DOMAIN var.data :
                        LET y == var.coords.y[p[2]]
                            x == var.coords.x[p[3]]
                        IN  IF /\ p[1] = t
                               /\ y \in Range(coords(tile).y)
                               /\ x \in Range(coords(tile).x)
                            THEN var.data[p] = ValueAt(tile.data_vars[key], y, x)
                                 /\ var.data[p] # NaN
                            ELSE var.data[p] = NaN

\* C12 witness: a first insertion at the second time index of a tile that
\* covers a part of the canvas only.
C12_Witness ==
    /\ FirstInsertionDone
    /\ LastEvent.at.dt_idx = 2
    /\ Len(coords(TileOf(LastEvent)).x) < Len(coords(final_ds.canvas).x)

\* The zone a tile belongs to, and the position of the tile in the zone.
ZoneOfTile(tile) ==
    CHOOSE z \in DOMAIN utm_tile_id(grouped_items) :
        tile \in Range(utm_tile_id(grouped_items)[z][2])
PlaceInZone(tile) ==
    IndexOf(utm_tile_id(grouped_items)[ZoneOfTile(tile)][2], tile)

\* The cells of zone z as the loops of _generate_utm_cube visit them, and
\* the order of the visits.
CellsOfZone(z) ==
    {[dt_idx |-> d, tile |-> t] : d \in DOMAIN grouped_items.time,
                                  t \in Range(utm_tile_id(grouped_items)[z][2])}
VisitedBefore(c1, c2) ==
    \/ c1.dt_idx < c2.dt_idx
    \/ c1.dt_idx = c2.dt_idx /\ PlaceInZone(c1.tile) < PlaceInZone(c2.tile)
\* The cells of zone z that yield a mosaicked tile.
NonEmptyCells(z) ==
    {c \in CellsOfZone(z) : ClippedOf(z, c.dt_idx, c.tile) # <<>>}

\* The events of the history that build a canvas, that insert into one.
Creations == {i \in DOMAIN canvas_log : canvas_log[i].op = "create"}
Insertions == {i \in DOMAIN canvas_log : canvas_log[i].op = "insert"}

\* C20: a canvas is built at most once per zone, at the first cell of the
\* zone (in the order of the loops) that yields a mosaicked tile, and right
\* before the first insertion; every insertion of the zone goes into that
\* canvas; a zone none of whose cells yields a tile ends without a canvas.
C20_LazyCanvas ==
    /\ \A i, j \in Creations :
          ZoneOfTile(canvas_log[i].at.tile) = ZoneOfTile(canvas_log[j].at.tile)
              => i = j
    /\ \A i \in Creations :
          LET z == ZoneOfTile(canvas_log[i].at.tile)
          IN  /\ canvas_log[i].at \in NonEmptyCells(z)
              /\ \A c \in NonEmptyCells(z) :
                    ~VisitedBefore(c, canvas_log[i].at)
              /\ i + 1 \in Insertions
              /\ canvas_log[i + 1].serial = canvas_log[i].serial
    /\ \A j \in Insertions :
          \E i \in Creations :
              /\ i < j
              /\ canvas_log[i].serial = canvas_log[j].serial
              /\ ZoneOfTile(canvas_log[i].at.tile)
                     = ZoneOfTile(canvas_log[j].at.tile)
    /\ ~IsNone(final_ds) =>
          \E i \in Creations : canvas_log[i].serial = final_ds.serial
    /\ \A z \in DOMAIN list_ds_utm :
          /\ IsNone(list_ds_utm[z]) <=> NonEmptyCells(z) = {}
          /\ NonEmptyCells(z) = {} =>
                \A i \in Creations : ZoneOfTile(canvas_log[i].at.tile) # z
          /\ NonEmptyCells(z) =
                {canvas_log[j].at : j \in {j \in Insertions :
                    ZoneOfTile(canvas_log[j].at.tile) = z}}

\* C20 witness: a zone done after two insertions, at two time steps, into
\* the one canvas built for it.
C20_Witness ==
    /\ Len(list_ds_utm) = 1
    /\ Cardinality(Creations) = 1
    /\ Cardinality(Insertions) = 2
    /\ canvas_log[2].serial = canvas_log[3].serial
    /\ canvas_log[2].at.dt_idx # canvas_log[3].at.dt_idx

(***************************************************************************)
(* Properties of the merge of the zones (SpecCube)                         *)
(***************************************************************************)
\* The target grid has been selected.
TargetSelected == ~IsNone(target_gm)

\* The zones whose canvas is in the requested CRS.
ZonesInTargetCrs ==
    {i \in DOMAIN list_ds_utm :
        coords(list_ds_utm[i].canvas).spatial_ref = open_params["crs"]}

\* The pixel spacing of a canvas along x and along y.
Spacing(canvas) ==
    <<coords(canvas).x[2] - coords(canvas).x[1],
      coords(canvas).y[1] - coords(canvas).y[2]>>

\* The grid computed from the request: bbox, spatial_res, crs and tile_size,
\* 1830 when the request gives none.
GridOfRequest ==
    get_gridmapping(open_params["bbox"], open_params["spatial_res"],
                    open_params["crs"],
                    IF "tile_size" \in DOMAIN open_params
                    THEN open_params["tile_size"] ELSE 1830)

\* C16: when a zone's canvas is in the target CRS and its spacing is the
\* requested resolution along x and y, the target grid is that canvas's own
\* grid; when a zone is in the target CRS with another spacing, or no zone
\* is in the target CRS, the target grid is computed from the request's
\* bbox, spatial_res, crs and tile_size (1830 by default).
C16_TargetGrid ==
    TargetSelected =>
        IF \E i \in ZonesInTargetCrs :
              Spacing(list_ds_utm[i].canvas)
                  = <<open_params["spatial_res"], open_params["spatial_res"]>>
        THEN \E i \in ZonesInTargetCrs :
                 target_gm = from_dataset(list_ds_utm[i].canvas)
        ELSE target_gm = GridOfRequest

\* C16 witness: two zones, the first one in the target CRS at the requested
\* resolution, its grid reused.
C16_Witness ==
    /\ TargetSelected
    /\ Len(list_ds_utm) = 2
    /\ ZonesInTargetCrs = {1}
    /\ target_gm = from_dataset(list_ds_utm[1].canvas)
    /\ target_gm # GridOfRequest

\* Two grids coincide: same CRS, same resolution, same box, same size.
SameGrid(gm, other) ==
    /\ gm.crs = other.crs /\ gm.xy_res = other.xy_res
    /\ gm.xy_bbox = other.xy_bbox /\ gm.size = other.size

\* The resamplers that produced the variables of a dataset; none for a
\* canvas that was not resampled.
ResampledBy(ds) ==
    {ds.data_vars[key].resampled :
        key \in {k \in DOMAIN ds.data_vars :
                    "resampled" \in DOMAIN ds.data_vars[k]}}

\* C17: each zone takes exactly one of three paths: a zone whose grid is
\* the target grid comes back as it is, not resampled; a zone in the target
\* CRS on another grid is resampled by affine transform only; a zone in
\* another CRS is reprojected only.  The zone whose grid was reused as the
\* target grid comes back as it is.
C17_Dispatch ==
    \A i \in DOMAIN resampled_list_ds :
        LET zone == list_ds_utm[i].canvas
            out == resampled_list_ds[i]
        IN  /\ IF SameGrid(from_dataset(zone), target_gm)
               THEN out.path = "unchanged" /\ out.ds = zone
                    /\ ResampledBy(out.ds) = {}
               ELSE IF coords(zone).spatial_ref = target_gm.crs
               THEN out.path = "affine"
                    /\ ResampledBy(out.ds) = {"affine_transform_dataset"}
               ELSE out.path = "reproject"
                    /\ ResampledBy(out.ds) = {"reproject_dataset"}
            /\ target_gm = from_dataset(zone) => out.ds = zone

\* C17 witness: two zones resampled, the first one, whose grid is the target
\* grid, as it was, the second one reprojected.
C17_Witness ==
    /\ Len(resampled_list_ds) = 2
    /\ resampled_list_ds[1].path = "unchanged"
    /\ resampled_list_ds[1].ds = list_ds_utm[1].canvas
    /\ resampled_list_ds[2].path = "reproject"

(***************************************************************************)
(* Properties of the warnings of a call (SpecCube)                         *)
(***************************************************************************)
\* How many entries of the log satisfy a test.
CorruptedWarnings ==
    {i \in DOMAIN LOG : LOG[i].msg = "may produce corrupted results"}
NotSupportedWarnings ==
    {i \in DOMAIN LOG : LOG[i] = NotSupportedWarning}

\* The overrides of the call resolve, for "scl", to a spline order other
\* than 0 or to an aggregation method outside center, first, last, max, min.
SclSplineOrder ==
    _get_var_spline_order(Override(open_params, "spline_orders"), "scl").value
SclAggMethod ==
    _get_var_agg_method(Override(open_params, "agg_methods"), "scl").value
OffendingOverride ==
    /\ "scl" \in VariablesOf(open_params)
    /\ \/ SclSplineOrder # 0
       \/ SclAggMethod \notin {"center", "first", "last", "max", "min"}

\* C13 as stated: a call whose overrides are offending for "scl" logs
\* exactly one "may produce corrupted results" warning, naming "scl" and
\* the selected method, whatever the number of zones and their paths.
C13_OneWarningPerCall ==
    (pc = "done" /\ OffendingOverride) =>
        /\ Cardinality(CorruptedWarnings) = 1
        /\ \A i \in CorruptedWarnings :
              /\ LOG[i].var = "scl"
              /\ LOG[i].method \in {SclSplineOrder, SclAggMethod}

\* The zones that were reprojected.
ReprojectedZones ==
    {i \in DOMAIN resampled_list_ds : resampled_list_ds[i].path = "reproject"}

\* C14 as stated: a call that supplies spline_orders and reprojects at least
\* one zone logs the "not supported yet" warning exactly once, whatever the
\* number of reprojected zones; any other call does not log it.
C14_OncePerCall ==
    pc = "done" =>
        Cardinality(NotSupportedWarnings)
            = IF "spline_orders" \in DOMAIN open_params /\ ReprojectedZones # {}
              THEN 1 ELSE 0

(***************************************************************************)
(* Properties of the time coordinate of the tiled grouper (Spec)           *)
(***************************************************************************)
\* The positions in the input of the items whose nominal date is that of
\* time step d.
Bucket(d) ==
    {i \in DOMAIN items :
        date(items[i].datetime_nominal) = date(grouped_items.time[d])}

\* Item i comes before item j when the tiles are scanned in sorted order
\* and each cell in input order.
ScannedBefore(i, j) ==
    \/ items[i].grid_code < items[j].grid_code
    \/ items[i].grid_code = items[j].grid_code /\ i < j

\* C18: the time coordinate of each date bucket of the tiled grouper is the
\* nominal timestamp of the item of that date that comes first when tiles
\* are scanned in sorted order and cells in input order; the coordinates
\* and the order of the items within each cell are fixed by the input
\* order: one coordinate per nominal date, in ascending order, and every
\* cell in input order.
C18_TimeCoordinate ==
    grouped_items.built =>
        /\ \A d \in DOMAIN grouped_items.time :
              /\ Bucket(d) # {}
              /\ \E i \in Bucket(d) :
                    /\ \A j \in Bucket(d) \ {i} : ScannedBefore(i, j)
                    /\ grouped_items.time[d] = items[i].datetime_nominal
        /\ \A d, e \in DOMAIN grouped_items.time :
              d < e => date(grouped_items.time[d]) < date(grouped_items.time[e])
        /\ {date(items[i].datetime_nominal) : i \in DOMAIN items}
              = {date(grouped_items.time[d]) : d \in DOMAIN grouped_items.time}
        /\ \A c \in DOMAIN grouped_items.values :
              \A i, j \in DOMAIN grouped_items.values[c] :
                  i < j => grouped_items.values[c][i].id
                              < grouped_items.values[c][j].id

\* C18 witness: a date bucket whose time coordinate is not the nominal
\* timestamp of its first item in input order, as an item of an earlier
\* tile comes later in the input.
C18_Witness ==
    /\ grouped_items.built
    /\ \E d \in DOMAIN grouped_items.time :
          \E i \in Bucket(d) :
              /\ \A j \in Bucket(d) : i <= j
              /\ grouped_items.time[d] # items[i].datetime_nominal

(***************************************************************************)
(* Properties of the Sentinel-3 grouper (SpecSen3Group)                    *)
(***************************************************************************)
\* The Sentinel-3 group index has been built.
Sen3Grouped == s3_grouped_items.called /\ s3_grouped_items.error = "none"

\* C19 as stated: the time coordinate of each date bucket of the Sentinel-3
\* grouper is the nominal timestamp of the first item of the bucket, so its
\* date is the nominal date of the bucket.
C19_NominalTimeCoordinate ==
    Sen3Grouped =>
        \A d \in DOMAIN s3_grouped_items.time :
            LET first == s3_grouped_items.values[d][1]
            IN  /\ s3_grouped_items.time[d] = first.datetime_nominal
                /\ date(s3_grouped_items.time[d]) = date(first.datetime_nominal)

(***************************************************************************)
(* Properties of _insert_tile_data (SpecInsert)                            *)
(***************************************************************************)
\* The tile of the last call, and the canvas it was called on.
LastTile == fn_args.tiles[fn_ret.n]
CanvasBefore == fn_ret.before

\* A coordinate of the tile is not in the coordinate index of the canvas.
OffCanvas(tile, canvas) ==
    \/ \E i \in DOMAIN coords(tile).x :
          coords(tile).x[i] \notin Range(coords(canvas).x)
    \/ \E i \in DOMAIN coords(tile).y :
          coords(tile).y[i] \notin Range(coords(canvas).y)

\* C21: _insert_tile_data raises whenever a coordinate of the tile, the
\* first, the last or one between them, is not in the coordinate index of
\* the canvas; after a call that raised, the canvas holds what it held
\* before.
C21_GridAlignmentFault ==
    fn_ret.called =>
        /\ OffCanvas(LastTile, CanvasBefore) => fn_ret.error # "none"
        /\ fn_ret.error # "none" => fn_ret.final_ds = CanvasBefore

\* C21 witness: a second tile whose first and last coordinates are on the
\* canvas and one between them is not; the call raised and the canvas still
\* holds the first tile.
C21_Witness ==
    /\ fn_ret.called /\ fn_ret.n = 2
    /\ LET t == coords(LastTile)
       IN  /\ t.x[1] \in Range(coords(CanvasBefore).x)
           /\ t.x[Len(t.x)] \in Range(coords(CanvasBefore).x)
           /\ OffCanvas(LastTile, CanvasBefore)
    /\ fn_ret.error = "IndexError"
    /\ fn_ret.final_ds = CanvasBefore
    /\ fn_ret.final_ds # fn_args.final_ds

\* The tile covers the coordinates (y, x).
Covers(tile, y, x) ==
    y \in Range(coords(tile).y) /\ x \in Range(coords(tile).x)

\* The tiles written so far that cover (y, x), by their place in the row.
CoveringTiles(y, x) ==
    {k \in 1..fn_ret.n : Covers(fn_args.tiles[k], y, x)}

\* Within one zone and one time step, the insertions of the history follow
\* the sorted order of the tile identifiers.
InsertionsInTileOrder ==
    \A i, j \in Insertions :
        (/\ i < j
         /\ ZoneOfTile(canvas_log[i].at.tile) = ZoneOfTile(canvas_log[j].at.tile)
         /\ canvas_log[i].at.dt_idx = canvas_log[j].at.dt_idx)
            => grouped_items.tile_id[canvas_log[i].at.tile]
                  < grouped_items.tile_id[canvas_log[j].at.tile]

\* C28: tiles are written into a time slice by plain assignment, in the
\* sorted order of the tile identifiers: after the insertions, every pixel
\* of the slice holds the value, NaN included, of the last tile written that
\* covers it, and NaN when no tile covers it; the other time slices hold
\* no data.
C28_LastTileWins ==
    /\ InsertionsInTileOrder
    /\ (fn_ret.called /\ fn_ret.error = "none") =>
          \A key \in DOMAIN fn_ret.final_ds.data_vars :
              LET var == fn_ret.final_ds.data_vars[key]
              IN  \A p \in DOMAIN var.data :
                    LET y == var.coords.y[p[2]]
                        x == var.coords.x[p[3]]
                    IN  IF p[1] = fn_args.dt_idx /\ CoveringTiles(y, x) # {}
                        THEN var.data[p] =
                                ValueAt(fn_args.tiles[Max(CoveringTiles(y, x))]
                                            .data_vars[key], y, x)
                        ELSE var.data[p] = NaN

\* C28 witness: a pixel that held a value of the first tile holds no data
\* after the second tile, which covers it with a pixel without data.
C28_Witness ==
    /\ fn_ret.called /\ fn_ret.error = "none" /\ fn_ret.n = 2
    /\ \E p \in DOMAIN fn_ret.final_ds.data_vars["b02"].data :
          /\ fn_ret.before.data_vars["b02"].data[p] # NaN
          /\ fn_ret.final_ds.data_vars["b02"].data[p] = NaN
    /\ \E p \in DOMAIN fn_ret.final_ds.data_vars["b02"].data :
          /\ fn_ret.before.data_vars["b02"].data[p] # NaN
          /\ fn_ret.final_ds.data_vars["b02"].data[p]
                = fn_ret.before.data_vars["b02"].data[p]

(***************************************************************************)
(* Properties of the grid of a canvas (SpecCube)                           *)
(***************************************************************************)
\* The zone at hand has a canvas.
CanvasBuilt == zone_idx >= 1 /\ ~IsNone(final_ds)

\* The union bounding box of the tiles of the zone at hand, and the
\* requested bounding box in the CRS of the zone.
UnionBox ==
    _get_bounding_box(grouped_items, utm_tile_id(grouped_items)[zone_idx][2])
RequestedBox ==
    Coordinates(reproject_bbox(open_params["bbox"], open_params["crs"],
                               utm_tile_id(grouped_items)[zone_idx][1]))

\* A coordinate is a pixel centre of the grid that starts at an edge and
\* runs in steps of r in the direction dir: edge + dir * (k + 1/2) * r for
\* a k >= 0 (twice the distance is an odd multiple of r).
IsCentreFrom(edge, dir, r, c) ==
    LET twice == 2 * dir * (c - edge)
    IN  twice > 0 /\ twice % r = 0 /\ (twice \div r) % 2 = 1

\* C22 as stated: the x coordinates of a canvas are pixel centres counted
\* from the left edge of the union bounding box and its y coordinates pixel
\* centres counted from its upper edge, x rising and y falling in steps of
\* the native resolution, and the canvas does not extend beyond the union
\* bounding box nor, by a whole pixel, beyond the requested bounding box.
C22_CanvasGrid ==
    CanvasBuilt =>
        LET c == coords(final_ds.canvas)
            r == _get_spatial_res(open_params)
            half == r \div 2
        IN  /\ \A i \in DOMAIN c.x : IsCentreFrom(UnionBox[1], 1, r, c.x[i])
            /\ \A i \in DOMAIN c.y : IsCentreFrom(UnionBox[4], -1, r, c.y[i])
            /\ \A i \in DOMAIN c.x : i > 1 => c.x[i] = c.x[i - 1] + r
            /\ \A i \in DOMAIN c.y : i > 1 => c.y[i] = c.y[i - 1] - r
            /\ \A i \in DOMAIN c.x :
                  /\ c.x[i] - half >= UnionBox[1] /\ c.x[i] + half <= UnionBox[3]
                  /\ c.x[i] + half > RequestedBox[1]
                  /\ c.x[i] - half < RequestedBox[3]
            /\ \A i \in DOMAIN c.y :
                  /\ c.y[i] - half >= UnionBox[2] /\ c.y[i] + half <= UnionBox[4]
                  /\ c.y[i] + half > RequestedBox[2]
                  /\ c.y[i] - half < RequestedBox[4]

\* The call raised because a tile did not fit the canvas.
GridAlignmentFault ==
    raised.type \in {"KeyError", "IndexError", "ValueError"}

\* The last step wrote a tile into the canvas of the zone at hand.
TileWritten ==
    /\ CanvasBuilt /\ canvas_log # <<>>
    /\ LastEvent.op = "insert" /\ LastEvent.serial = final_ds.serial

\* C29: the tiles lie on the native grid anchored at the union bounding
\* box, and for such tiles, clipped to the requested box, cube generation
\* never raises a grid alignment fault: the first and last x and y of every
\* tile written are coordinates of the canvas and so are all between them.
C29_NoGridAlignmentFault ==
    /\ ~GridAlignmentFault
    /\ TileWritten =>
          LET t == coords(TileOf(LastEvent))
              c == coords(final_ds.canvas)
              r == _get_spatial_res(open_params)
          IN  /\ \A i \in DOMAIN t.x : IsCentreFrom(UnionBox[1], 1, r, t.x[i])
              /\ \A i \in DOMAIN t.y : IsCentreFrom(UnionBox[4], -1, r, t.y[i])
              /\ {t.x[1], t.x[Len(t.x)]} \subseteq Range(c.x)
              /\ {t.y[1], t.y[Len(t.y)]} \subseteq Range(c.y)
              /\ Range(t.x) \subseteq Range(c.x)
              /\ Range(t.y) \subseteq Range(c.y)

\* C29 witness: a tile clipped by a requested box whose edges lie inside
\* pixels, written into a canvas wider than the clipped tile.
C29_Witness ==
    /\ TileWritten
    /\ RequestedBox[1] % _get_spatial_res(open_params) # 0
    /\ Len(coords(TileOf(LastEvent)).x) = 1
    /\ Len(coords(final_ds.canvas).x) = 3
    /\ raised = NoError

(***************************************************************************)
(* Properties of the reprojection of a zone (SpecCube)                     *)
(***************************************************************************)
\* C23: a zone that is reprojected is reprojected with bilinear
\* interpolation for every variable but "scl" and with nearest-neighbour
\* interpolation for "scl", whatever spline_orders the caller gave: no
\* spline order reaches the reprojection; "scl", when the zone has it, goes
\* through a pass of its own, after the pass of the others; and the result
\* has the variables of the zone, all of them and no other.
C23_ReprojectionPolicy ==
    \A i \in ReprojectedZones :
        LET zone == list_ds_utm[i].canvas
            out == resampled_list_ds[i].ds
        IN  /\ DOMAIN out.data_vars = DOMAIN zone.data_vars
            /\ \A key \in DOMAIN out.data_vars :
                  LET by == out.data_vars[key].by
                  IN  /\ out.data_vars[key].resampled = "reproject_dataset"
                      /\ by.interpolation
                            = IF key = "scl" THEN "nearest" ELSE "bilinear"
                      /\ \A k \in DOMAIN by.downscale_var_configs :
                            "spline_order"
                                \notin DOMAIN by.downscale_var_configs[k]
                      /\ by.pass = IF key = "scl" THEN 2 ELSE 1

\* C23 witness: a zone of "b02" and "scl" reprojected on a call that asks
\* for spline order 0 for all variables.
C23_Witness ==
    /\ "spline_orders" \in DOMAIN open_params
    /\ open_params["spline_orders"] = [kind |-> "value", value |-> 0]
    /\ \E i \in ReprojectedZones :
          /\ DOMAIN resampled_list_ds[i].ds.data_vars = {"b02", "scl"}
          /\ resampled_list_ds[i].ds.data_vars["b02"].by.interpolation = "bilinear"

(***************************************************************************)
(* Properties of the resolution of the methods of a variable (SpecPolicy)  *)
(***************************************************************************)
\* The call resolved a spline order (otherwise an aggregation method).
ForSplineOrder == fn_args.fn = "_get_var_spline_order"

\* The default method of the variable of the call.
DefaultMethod ==
    IF ForSplineOrder
    THEN (IF fn_args.key = "scl" THEN 0 ELSE 3)
    ELSE (IF fn_args.key = "scl" THEN "center" ELSE "mean")

\* The entries of the mapping of the call that list the variable, by name
\* or by dtype ("scl" is uint8, the others float32).
MatchingEntries ==
    {i \in DOMAIN fn_args.override.items :
        \/ fn_args.key \in fn_args.override.items[i][2]
        \/ (IF fn_args.key = "scl" THEN "uint8" ELSE "float32")
              \in fn_args.override.items[i][2]}

\* The method is unsuitable for "scl".
Unsuitable(method) ==
    IF ForSplineOrder THEN method # 0
    ELSE method \notin {"center", "first", "last", "max", "min"}

\* C24: with no override "scl" resolves to spline order 0 and aggregation
\* "center" and every other variable to 3 and "mean"; a single method
\* applies to every variable; a mapping applies its first entry, in the
\* order of the mapping, that lists the name or the dtype of the variable,
\* and the default when no entry does; a method unsuitable for "scl" is
\* returned all the same, with one warning that names it, and no other
\* case warns.
C24_PolicyResolution ==
    fn_ret.called =>
        LET o == fn_args.override
        IN  /\ o.kind = "none" => fn_ret.value = DefaultMethod
            /\ o.kind = "value" => fn_ret.value = o.value
            /\ o.kind = "dict" =>
                  IF MatchingEntries = {} THEN fn_ret.value = DefaultMethod
                  ELSE \E i \in MatchingEntries :
                          /\ \A j \in MatchingEntries : i <= j
                          /\ fn_ret.value = o.items[i][1]
            /\ IF fn_args.key = "scl" /\ Unsuitable(fn_ret.value)
               THEN /\ Len(fn_ret.log) = 1
                    /\ fn_ret.log[1].msg = "may produce corrupted results"
                    /\ fn_ret.log[1].var = "scl"
                    /\ fn_ret.log[1].method = fn_ret.value
               ELSE fn_ret.log = <<>>

\* C24 witness: a mapping with two entries that both list "scl", the first
\* by dtype, the second by name; the first, unsuitable, is returned with a
\* warning.
C24_Witness ==
    /\ fn_ret.called /\ ForSplineOrder
    /\ fn_args.key = "scl"
    /\ fn_args.override = [kind |-> "dict",
                           items |-> <<<<3, {"uint8"}>>, <<0, {"scl"}>>>>]
    /\ fn_ret.value = 3
    /\ Len(fn_ret.log) = 1

(***************************************************************************)
(* Properties of the choice of the native resolution (SpecSpatialRes)      *)
(***************************************************************************)
\* The request of the call is at most n metres: n metres are n * 10^6
\* millionths of a metre, and a millionth of a degree is
\* CONVERSION_FACTOR_DEG_METER millionths of a metre.
AtMostMetres(n) ==
    IF fn_args.open_params.crs = "EPSG:4326"
    THEN fn_args.open_params.spatial_res * CONVERSION_FACTOR_DEG_METER <= n * 1000000
    ELSE fn_args.open_params.spatial_res <= n

\* C27: _get_spatial_res returns 10, 20 or 60: the smallest of them that is
\* not below the request in metres (a request in degrees converted first),
\* 60 for a request above 60, and a request of 10, 20 or 60 itself.
C27_NativeResolution ==
    fn_ret.called =>
        /\ fn_ret.value \in {10, 20, 60}
        /\ AtMostMetres(10) => fn_ret.value = 10
        /\ ~AtMostMetres(10) /\ AtMostMetres(20) => fn_ret.value = 20
        /\ ~AtMostMetres(20) => fn_ret.value = 60
        /\ \A n \in {10, 20, 60} :
              fn_args.open_params = [crs |-> "EPSG:32633", spatial_res |-> n]
                 => fn_ret.value = n

\* C27 witness: a request of 100 millionths of a degree, about 11 m, gets
\* the resolution 20.
C27_Witness ==
    /\ fn_ret.called
    /\ fn_args.open_params = [crs |-> "EPSG:4326", spatial_res |-> 100]
    /\ fn_ret.value = 20

\* C27, second case: a request of 20 m in a projected CRS gets 20.
C27_WitnessEqual ==
    /\ fn_ret.called
    /\ fn_args.open_params = [crs |-> "EPSG:32633", spatial_res |-> 20]
    /\ fn_ret.value = 20

(***************************************************************************)
(* Properties of the partition of the tiles into zones (Spec)              *)
(***************************************************************************)
\* The first item of the tile at position k of the index: the first item
\* of the cell of the earliest date that has one.
FirstItemOfTile(k) ==
    LET g == grouped_items
        d == Min({e \in DOMAIN g.time : g.values[<<e, k>>] # <<>>})
    IN  g.values[<<d, k>>][1]

\* The tile positions of a zone.
ZoneTiles(zone) == {zone[2][j] : j \in DOMAIN zone[2]}

\* C25: the zones generate_cube partitions the tile ids into: every tile id
\* is in exactly one zone, the one of the CRS of its first item; the zones
\* have different CRSs, share no tile id, cover all tile ids, and none is
\* empty.
C25_ZonePartition ==
    grouped_items.built =>
        LET zones == utm_tile_id(grouped_items)
            K == DOMAIN grouped_items.tile_id
        IN  /\ \A k \in K :
                  \E z \in DOMAIN zones :
                     /\ k \in ZoneTiles(zones[z])
                     /\ zones[z][1] = FirstItemOfTile(k).proj_code
                     /\ \A y \in DOMAIN zones \ {z} : k \notin ZoneTiles(zones[y])
            /\ \A z \in DOMAIN zones :
                  /\ zones[z][2] # <<>>
                  /\ Cardinality(ZoneTiles(zones[z])) = Len(zones[z][2])
            /\ \A y, z \in DOMAIN zones :
                  y # z => /\ zones[y][1] # zones[z][1]
                           /\ ZoneTiles(zones[y]) \cap ZoneTiles(zones[z]) = {}
            /\ UNION {ZoneTiles(zones[z]) : z \in DOMAIN zones} = K

\* C25 witness: generate_cube has started on the zones of three tiles, the
\* first and the third in one CRS and the second in another.
C25_Witness ==
    /\ grouped_items.built
    /\ zone_idx >= 1
    /\ utm_tile_id(grouped_items) =
          <<<<"EPSG:32633", <<1, 3>>>>, <<"EPSG:32625", <<2>>>>>>

(***************************************************************************)
(* Properties of the order of the merge (SpecCube)                         *)
(***************************************************************************)
\* The first position on the tile_id axis of a tile in the CRS.
FirstPos(crs) ==
    Min({k \in DOMAIN grouped_items.tile_id : FirstItemOfTile(k).proj_code = crs})

\* The CRSs of the tiles of the index.
ZoneCrss ==
    {FirstItemOfTile(k).proj_code : k \in DOMAIN grouped_items.tile_id}

\* The canvas at position i of list_ds_utm is that of the i-th CRS in the
\* order of first appearance along the sorted tile ids.
InPartitionOrder(i) ==
    LET crs == coords(list_ds_utm[i].canvas).spatial_ref
    IN  /\ crs \in ZoneCrss
        /\ Cardinality({c \in ZoneCrss : FirstPos(c) < FirstPos(crs)}) = i - 1

\* The first value that is not NaN, NaN when there is none.
FirstValid(vals) ==
    LET valid == {i \in DOMAIN vals : vals[i] # NaN}
    IN  IF valid = {} THEN NaN ELSE vals[Min(valid)]

\* Every pixel of the canvas that holds a value holds one of the first item
\* of a cell of its time step (a pixel value names its item).
FromFirstItems(canvas) ==
    \A key \in DOMAIN canvas.data_vars :
       \A p \in DOMAIN canvas.data_vars[key].data :
          LET v == canvas.data_vars[key].data[p]
          IN  v # NaN =>
                 \E k \in DOMAIN grouped_items.tile_id :
                    /\ grouped_items.values[<<p[1], k>>] # <<>>
                    /\ grouped_items.values[<<p[1], k>>][1].id = v \div 10000

\* C26: the zone canvases are in the order in which the zones were
\* partitioned, each is resampled at its own position, and the cube holds
\* at every pixel the first valid value in that order; within a cell the
\* first item of the cell wins.
C26_MergeOrder ==
    /\ \A i \in DOMAIN list_ds_utm :
          ~IsNone(list_ds_utm[i]) =>
             /\ InPartitionOrder(i)
             /\ FromFirstItems(list_ds_utm[i].canvas)
    /\ ~IsNone(final_ds) => FromFirstItems(final_ds.canvas)
    /\ Len(resampled_list_ds) <= Len(list_ds_utm)
    /\ \A i \in DOMAIN resampled_list_ds :
          resampled_list_ds[i].ds =
             _resample_dataset_soft(list_ds_utm[i].canvas, target_gm,
                                    open_params).ds
    /\ pc \in {"attrs", "done"} =>
          \A key \in DOMAIN ds_final.cube.data_vars :
             \A p \in DOMAIN ds_final.cube.data_vars[key].data :
                ds_final.cube.data_vars[key].data[p] =
                   FirstValid([i \in DOMAIN resampled_list_ds |->
                                  resampled_list_ds[i].ds.data_vars[key].data[p]])

\* C26 witness: a cube of two zones that both hold a value at a pixel, the
\* values differ, and the cube has that of the first zone.
C26_Witness ==
    /\ pc = "done"
    /\ Len(resampled_list_ds) = 2
    /\ \E key \in DOMAIN ds_final.cube.data_vars :
          \E p \in DOMAIN ds_final.cube.data_vars[key].data :
             LET a == resampled_list_ds[1].ds.data_vars[key].data[p]
                 b == resampled_list_ds[2].ds.data_vars[key].data[p]
             IN  /\ a # NaN /\ b # NaN /\ a # b
                 /\ ds_final.cube.data_vars[key].data[p] = a

\* C26, second case: a zone canvas filled from a cell of two items holds
\* the values of the first of them.
C26_WitnessCell ==
    /\ list_ds_utm # <<>>
    /\ ~IsNone(list_ds_utm[1])
    /\ Len(grouped_items.values[<<1, 1>>]) = 2
    /\ \E key \in DOMAIN list_ds_utm[1].canvas.data_vars :
          \E p \in DOMAIN list_ds_utm[1].canvas.data_vars[key].data :
             list_ds_utm[1].canvas.data_vars[key].data[p] \div 10000 =
                grouped_items.values[<<1, 1>>][1].id

(***************************************************************************)
(* Properties of the group indexes (SpecIndex)                             *)
(***************************************************************************)
\* The nominal dates of the items grouped.
NominalDates == {date(items[i].datetime_nominal) : i \in DOMAIN items}

\* C30: the tiled index of a non-empty item list has an item in every date
\* row and in every tile column, and its time coordinates increase strictly,
\* one per nominal date of the items, so the first item of a row and the
\* first item of a column exist; the single-key index has an item at every
\* date.
C30_IndexNonEmpty ==
    /\ grouped_items.built =>
          LET g == grouped_items
              D == DOMAIN g.time
              K == DOMAIN g.tile_id
          IN  /\ D # {} /\ K # {}
              /\ DOMAIN g.values = D \X K
              /\ \A d \in D : \E k \in K : g.values[<<d, k>>] # <<>>
              /\ \A k \in K : \E d \in D : g.values[<<d, k>>] # <<>>
              /\ \A d, e \in D : d < e => g.time[d] < g.time[e]
              /\ {date(g.time[d]) : d \in D} = NominalDates
              /\ Len(g.time) = Cardinality(NominalDates)
              /\ \A d \in D : Len(RowItems(g.values, Len(g.tile_id), d, 1)) >= 1
              /\ \A k \in K : Len(ColumnItems(g.values, Len(g.time), 1, k)) >= 1
    /\ s3_grouped_items.called /\ s3_grouped_items.error = "none" =>
          /\ DOMAIN s3_grouped_items.values = DOMAIN s3_grouped_items.time
          /\ \A d \in DOMAIN s3_grouped_items.values :
                s3_grouped_items.values[d] # <<>>

\* C30 witness: an index of two dates and two tiles with two empty cells:
\* each tile has its item at another date.
C30_Witness ==
    /\ grouped_items.built
    /\ Len(grouped_items.time) = 2 /\ Len(grouped_items.tile_id) = 2
    /\ Cardinality({c \in DOMAIN grouped_items.values :
                       grouped_items.values[c] = <<>>}) = 2

\* C30, second case: a single-key index of two dates.
C30_WitnessSen3 ==
    /\ s3_grouped_items.called /\ s3_grouped_items.error = "none"
    /\ Len(s3_grouped_items.values) = 2

====
